---------------------------- MODULE Spec2Model ----------------------------
(***************************************************************************)
(* A model of the plan ingestion core of pev2:                             *)
(*   - PlanService.createPlan and its enrichment walk (plan-service.ts),   *)
(*   - PlanService.parseJson, the duplicate-key tolerant JSON reader,      *)
(*   - PlanService.cleanupSource, the source normaliser,                   *)
(*   - TextParser.splitIntoLines, the line reassembler (parsers/text.ts).  *)
(* Every subsystem has a specification of its own (Spec, SpecJson,         *)
(* SpecLines, SpecCleanup); the variables of the other subsystems stay at  *)
(* their idle values.                                                      *)
(***************************************************************************)
EXTENDS Integers, Sequences, FiniteSets, TLC

VARIABLES
    \* PlanService / createPlan
    nodeId,      \* PlanService.nodeId (plan-service.ts:16)
    given,       \* the planContent of the next call, then of the last call, as handed over
    heap,        \* the node objects of the last planContent, by object identity
    plan,        \* the IPlan returned by the last createPlan (root, ctes, maxima)
    calls,       \* number of createPlan calls made on the instance
    \* parseJson
    jsonPc,      \* "parsing" while clarinet delivers events, "done" after the return
    jsrc,        \* the source handed to parseJson: its entries, in input order
    jpos,        \* number of events already delivered
    jheap,       \* the containers allocated by the handlers, by object identity
    elements,    \* parseJson's stack `elements` (plan-service.ts:318)
    duplicated,  \* parseJson's `duplicated` marker (plan-service.ts:321)
    jroot,       \* parseJson's `root` (plan-service.ts:319)
    \* splitIntoLines
    linePc,      \* "ready" before splitIntoLines has run, "done" after
    rawLines,    \* text.split(/\r?\n/) of the input (text.ts:20)
    out,         \* the returned array `out` (text.ts:19)
    outLost,     \* the property out[-1] written when out is empty (text.ts:27)
    \* cleanupSource
    cleanPc,     \* "ready" before cleanupSource has run, then "once", "twice"
    source,      \* the argument of cleanupSource
    cleaned,     \* cleanupSource(source)
    cleanedTwice, \* cleanupSource(cleanupSource(source))
    \* fromJson
    blockPc,     \* "ready" before fromJson has run, "done" after
    sourceLines, \* source.split(/[\r\n]+/) (plan-service.ts:282)
    extracted,   \* prefix, firstLineIndex, lastLineIndex and the lines of useSource
    \* fromText
    textPc,          \* "lines" in the loop over the lines, then "returned" or "failed"
    textLine,        \* the line the callback was given last
    lineCount,       \* the number of lines the callback was given
    elementsAtDepth, \* text.ts:53
    objects,         \* the nodes, workers and JIT objects created, by identity
    textRoot,        \* root (text.ts:49)
    thrown,          \* the message of the error fromText throws, "" when none
    \* Dragscroll
    listener,             \* this.listener; FALSE while no Dragscroll is constructed
    started,              \* this.start
    startMousePositionX,  \* dragscroll.ts:9
    startMousePositionY,
    startScrollPositionX,
    startScrollPositionY,
    scrollLeft,           \* this.element.scrollLeft
    scrollTop,            \* this.element.scrollTop
    lastEvent,            \* the event the handler that ran last was given
    scrolledTo,           \* the arguments of the scrollTo of that handler, <<>> when it made none
    pressed               \* a mousedown outside '.plan-node-body' since the last mouseup

planVars == <<nodeId, given, heap, plan, calls>>
jsonVars == <<jsonPc, jsrc, jpos, jheap, elements, duplicated, jroot>>
lineVars == <<linePc, rawLines, out, outLost>>
cleanVars == <<cleanPc, source, cleaned, cleanedTwice>>
blockVars == <<blockPc, sourceLines, extracted>>
textVars == <<textPc, textLine, lineCount, elementsAtDepth, objects, textRoot, thrown>>
dragVars == <<listener, started, startMousePositionX, startMousePositionY,
              startScrollPositionX, startScrollPositionY, scrollLeft, scrollTop,
              lastEvent, scrolledTo, pressed>>
moreVars == <<blockVars, textVars, dragVars>>
vars == <<planVars, jsonVars, lineVars, cleanVars, moreVars>>

(***************************************************************************)
(* JavaScript values.  A number is a rational n/d (d > 0, lowest terms);   *)
(* undefined, NaN and the infinities are values of their own.              *)
(***************************************************************************)
Undef == [k |-> "undefined", n |-> 0, d |-> 1]
NaN == [k |-> "NaN", n |-> 0, d |-> 1]
Infinity == [k |-> "Infinity", n |-> 1, d |-> 1]
NegInfinity == [k |-> "Infinity", n |-> -1, d |-> 1]

Abs(x) == IF x < 0 THEN -x ELSE x

RECURSIVE Gcd(_, _)
Gcd(a, b) == IF b = 0 THEN a ELSE Gcd(b, a % b)

\* the number n/d, d # 0, in lowest terms
Rat(n, d) ==
    LET g == Gcd(Abs(n), Abs(d))
        s == IF d < 0 THEN -1 ELSE 1
    IN [k |-> "number", n |-> s * (n \div g), d |-> s * (d \div g)]

Num(n) == [k |-> "number", n |-> n, d |-> 1]

IsNumber(x) == x.k = "number"
IsInf(x) == x.k = "Infinity"
IsNaN(x) == x.k = "NaN"
IsUndefined(x) == x.k = "undefined"

\* sign of a number or infinity
Sign(x) == IF x.n > 0 THEN 1 ELSE IF x.n < 0 THEN -1 ELSE 0

\* ToNumber(undefined) is NaN
ToNumber(x) == IF IsUndefined(x) THEN NaN ELSE x

\* a * b
JsMul(a0, b0) ==
    LET a == ToNumber(a0)
        b == ToNumber(b0)
    IN IF IsNaN(a) \/ IsNaN(b) THEN NaN
       ELSE IF IsInf(a) \/ IsInf(b)
            THEN IF Sign(a) * Sign(b) = 0 THEN NaN
                 ELSE IF Sign(a) * Sign(b) > 0 THEN Infinity ELSE NegInfinity
       ELSE Rat(a.n * b.n, a.d * b.d)

\* a / b
JsDiv(a0, b0) ==
    LET a == ToNumber(a0)
        b == ToNumber(b0)
    IN IF IsNaN(a) \/ IsNaN(b) THEN NaN
       ELSE IF IsInf(a)
            THEN IF IsInf(b) THEN NaN
                 ELSE IF Sign(a) * (IF Sign(b) < 0 THEN -1 ELSE 1) > 0
                      THEN Infinity ELSE NegInfinity
       ELSE IF IsInf(b) THEN Num(0)
       ELSE IF b.n = 0
            THEN IF a.n = 0 THEN NaN
                 ELSE IF a.n > 0 THEN Infinity ELSE NegInfinity
       ELSE Rat(a.n * b.d, a.d * b.n)

\* a + b
JsAdd(a0, b0) ==
    LET a == ToNumber(a0)
        b == ToNumber(b0)
    IN IF IsNaN(a) \/ IsNaN(b) THEN NaN
       ELSE IF IsInf(a)
            THEN IF IsInf(b) /\ Sign(a) # Sign(b) THEN NaN ELSE a
       ELSE IF IsInf(b) THEN b
       ELSE Rat(a.n * b.d + b.n * a.d, a.d * b.d)

JsNeg(a) == IF IsNumber(a) \/ IsInf(a) THEN [a EXCEPT !.n = -a.n] ELSE a

\* a - b
JsSub(a, b) == JsAdd(a, JsNeg(ToNumber(b)))

\* a < b: false as soon as an operand is NaN or undefined
JsLt(a0, b0) ==
    LET a == ToNumber(a0)
        b == ToNumber(b0)
    IN IF IsNaN(a) \/ IsNaN(b) THEN FALSE
       ELSE IF IsInf(a) THEN Sign(a) < 0 /\ ~(IsInf(b) /\ Sign(b) < 0)
       ELSE IF IsInf(b) THEN Sign(b) > 0
       ELSE a.n * b.d < b.n * a.d

\* a > b
JsGt(a, b) == JsLt(b, a)

\* truthiness: undefined, NaN and 0 are falsy
Truthy(x) == IsInf(x) \/ (IsNumber(x) /\ x.n # 0)

\* a || b
JsOr(a, b) == IF Truthy(a) THEN a ELSE b


(***************************************************************************)
(* Strings are sequences of one-character strings; a string property that  *)
(* may be missing is wrapped.                                              *)
(***************************************************************************)
NoStr == [def |-> FALSE, s |-> <<>>]
Str(s) == [def |-> TRUE, s |-> s]

\* lodash toString: undefined becomes ''
toStr(x) == IF x.def THEN x.s ELSE <<>>

\* _.startsWith(string, target)
StartsWith(x, target) ==
    LET s == toStr(x)
    IN Len(s) >= Len(target) /\ SubSeq(s, 1, Len(target)) = target

\* a PARENT_RELATIONSHIP that is not set
Absent == "<absent>"

(***************************************************************************)
(* Plan nodes.  The node objects live in `heap`, indexed by identity;      *)
(* PLANS holds the identities of the children in order (a missing Plans    *)
(* property is the empty sequence: every reader of Plans goes through      *)
(* lodash, which treats undefined as empty).                               *)
(***************************************************************************)
\* the 12 properties of calculateExclusives
Counters ==
    {"SHARED_HIT_BLOCKS", "SHARED_READ_BLOCKS", "SHARED_DIRTIED_BLOCKS",
     "SHARED_WRITTEN_BLOCKS", "TEMP_READ_BLOCKS", "TEMP_WRITTEN_BLOCKS",
     "LOCAL_HIT_BLOCKS", "LOCAL_READ_BLOCKS", "LOCAL_DIRTIED_BLOCKS",
     "LOCAL_WRITTEN_BLOCKS", "IO_READ_TIME", "IO_WRITE_TIME"}

\* the properties that get a *_REVISED twin
RevisedProps ==
    {"ACTUAL_ROWS", "PLAN_ROWS", "ROWS_REMOVED_BY_FILTER",
     "ROWS_REMOVED_BY_JOIN_FILTER"}

\* a node as a parser leaves it: nothing but Plans is set
RawNode ==
    [nodeId |-> Undef,
     PARENT_RELATIONSHIP |-> Absent,
     SUBPLAN_NAME |-> NoStr,
     PLANS |-> <<>>,
     WORKERS_PLANNED |-> Undef,
     WORKERS_PLANNED_BY_GATHER |-> Undef,
     ACTUAL_ROWS |-> Undef,
     PLAN_ROWS |-> Undef,
     ROWS_REMOVED_BY_FILTER |-> Undef,
     ROWS_REMOVED_BY_JOIN_FILTER |-> Undef,
     ACTUAL_LOOPS |-> Undef,
     ACTUAL_TOTAL_TIME |-> Undef,
     ACTUAL_STARTUP_TIME |-> Undef,
     TOTAL_COST |-> Undef,
     EXCLUSIVE_COST |-> Undef,
     EXCLUSIVE_DURATION |-> Undef,
     PLANNER_ESTIMATE_FACTOR |-> Undef,
     PLANNER_ESTIMATE_DIRECTION |-> Absent,
     COUNTER |-> [c \in Counters |-> Undef],
     EXCLUSIVE |-> [c \in Counters |-> Undef],
     REVISED |-> [p \in RevisedProps |-> Undef]]

\* PlanService.isCTE
isCTE(node) ==
    /\ node.PARENT_RELATIONSHIP = "InitPlan"
    /\ StartsWith(node.SUBPLAN_NAME, <<"C", "T", "E">>)

\* calculatePlannerEstimate with the two directions exchanged
calculatePlannerEstimate_swapped(node) ==
    IF IsUndefined(node.ACTUAL_ROWS) THEN node
    ELSE LET a == node.ACTUAL_ROWS
             p == node.PLAN_ROWS
             n1 == [node EXCEPT !.PLANNER_ESTIMATE_FACTOR = JsDiv(a, p),
                                !.PLANNER_ESTIMATE_DIRECTION = "none"]
             n2 == IF JsGt(a, p)
                   THEN [n1 EXCEPT !.PLANNER_ESTIMATE_DIRECTION = "over"]
                   ELSE n1
         IN IF JsLt(a, p)
            THEN [n2 EXCEPT !.PLANNER_ESTIMATE_DIRECTION = "under",
                            !.PLANNER_ESTIMATE_FACTOR = JsDiv(p, a)]
            ELSE n2

\* PlanService.calculatePlannerEstimate, on the node value
calculatePlannerEstimate(node) ==
    IF IsUndefined(node.ACTUAL_ROWS) THEN node
    ELSE LET a == node.ACTUAL_ROWS
             p == node.PLAN_ROWS
             n1 == [node EXCEPT !.PLANNER_ESTIMATE_FACTOR = JsDiv(a, p),
                                !.PLANNER_ESTIMATE_DIRECTION = "none"]
             n2 == IF JsGt(a, p)
                   THEN [n1 EXCEPT !.PLANNER_ESTIMATE_DIRECTION = "under"]
                   ELSE n1
         IN IF JsLt(a, p)
            THEN [n2 EXCEPT !.PLANNER_ESTIMATE_DIRECTION = "over",
                            !.PLANNER_ESTIMATE_FACTOR = JsDiv(p, a)]
            ELSE n2

\* PlanService.childrenDuration: the children of h[id] from the i-th on
RECURSIVE childrenDurationFrom(_, _, _, _)
childrenDurationFrom(h, id, i, duration) ==
    IF i > Len(h[id].PLANS) THEN duration
    ELSE LET child == h[id].PLANS[i]
             d1 == IF h[child].PARENT_RELATIONSHIP # "InitPlan"
                   THEN childrenDurationFrom(h, child, 1,
                            JsAdd(duration,
                                  JsOr(h[child].EXCLUSIVE_DURATION, Num(0))))
                   ELSE duration
         IN childrenDurationFrom(h, id, i + 1, d1)

\* childrenDuration without the descent into the children's own children
RECURSIVE childrenDuration_direct(_, _, _)
childrenDuration_direct(h, id, duration) ==
    IF h[id].PLANS = <<>> THEN duration
    ELSE childrenDuration_direct(
            [h EXCEPT ![id].PLANS = Tail(@)], id,
            IF h[Head(h[id].PLANS)].PARENT_RELATIONSHIP # "InitPlan"
            THEN JsAdd(duration, JsOr(h[Head(h[id].PLANS)].EXCLUSIVE_DURATION, Num(0)))
            ELSE duration)

childrenDuration(h, id, duration) == childrenDurationFrom(h, id, 1, duration)

\* the loop of plan-service.ts:170-174 from the i-th child on
RECURSIVE subtractChildCosts(_, _, _, _)
subtractChildCosts(h, id, i, cost) ==
    IF i > Len(h[id].PLANS) THEN cost
    ELSE LET subPlan == h[h[id].PLANS[i]]
         IN subtractChildCosts(h, id, i + 1,
                IF subPlan.PARENT_RELATIONSHIP # "InitPlan" /\ Truthy(subPlan.TOTAL_COST)
                THEN JsSub(cost, subPlan.TOTAL_COST)
                ELSE cost)

\* scaleTimes that leaves the workers out
scaleTimes_noWorkers(node, workers) ==
    [node EXCEPT !.ACTUAL_TOTAL_TIME = JsMul(@, node.ACTUAL_LOOPS),
                 !.ACTUAL_STARTUP_TIME = JsMul(@, node.ACTUAL_LOOPS),
                 !.EXCLUSIVE_DURATION = JsMul(node.ACTUAL_TOTAL_TIME, node.ACTUAL_LOOPS)]

\* plan-service.ts:156-159: the times of node scaled by loops / workers
scaleTimes(node, workers) ==
    [node EXCEPT !.ACTUAL_TOTAL_TIME = JsDiv(JsMul(@, node.ACTUAL_LOOPS), workers),
                 !.ACTUAL_STARTUP_TIME = JsDiv(JsMul(@, node.ACTUAL_LOOPS), workers),
                 !.EXCLUSIVE_DURATION =
                     JsDiv(JsMul(node.ACTUAL_TOTAL_TIME, node.ACTUAL_LOOPS), workers)]

\* plan-service.ts:162: duration > 0 ? duration : 0
clampDuration(duration) == IF JsGt(duration, Num(0)) THEN duration ELSE Num(0)

\* plan-service.ts:153-163
actualDuration(h, id) ==
    IF IsUndefined(h[id].ACTUAL_TOTAL_TIME) THEN h
    ELSE [h EXCEPT ![id] =
            [scaleTimes(@, JsAdd(JsOr(@.WORKERS_PLANNED_BY_GATHER, Num(0)), Num(1)))
                EXCEPT !.EXCLUSIVE_DURATION =
                    clampDuration(JsSub(@, childrenDuration(h, id, Num(0))))]]

\* plan-service.ts:176-178
clampCost(cost) == IF JsLt(cost, Num(0)) THEN Num(0) ELSE cost

\* plan-service.ts:165-178
exclusiveCost(h, id) ==
    [h EXCEPT ![id].EXCLUSIVE_COST =
        clampCost(subtractChildCosts(h, id, 1,
                     IF Truthy(h[id].TOTAL_COST) THEN h[id].TOTAL_COST ELSE @))]

\* node[NodeProp[prop]] for the properties of RevisedProps
rowProp(node, prop) ==
    CASE prop = "ACTUAL_ROWS" -> node.ACTUAL_ROWS
      [] prop = "PLAN_ROWS" -> node.PLAN_ROWS
      [] prop = "ROWS_REMOVED_BY_FILTER" -> node.ROWS_REMOVED_BY_FILTER
      [] OTHER -> node.ROWS_REMOVED_BY_JOIN_FILTER

\* plan-service.ts:180-189
revisedRows(node) ==
    [node EXCEPT !.REVISED =
        [prop \in RevisedProps |->
            IF ~IsUndefined(rowProp(node, prop))
            THEN JsMul(rowProp(node, prop), JsOr(node.ACTUAL_LOOPS, Num(1)))
            ELSE @[prop]]]

\* PlanService.calculateActuals on heap h, node id
calculateActuals(h, id) ==
    [exclusiveCost(actualDuration(h, id), id) EXCEPT ![id] = revisedRows(@)]

\* _.sumBy(node.Plans, child => child[property] || 0), from the i-th child on
RECURSIVE sumByFrom(_, _, _, _)
sumByFrom(h, kids, property, i) ==
    IF i > Len(kids) THEN Num(0)
    ELSE JsAdd(JsOr(h[kids[i]].COUNTER[property], Num(0)),
               sumByFrom(h, kids, property, i + 1))

\* calculateExclusives summing over all descendants instead of the children
RECURSIVE sumDeep(_, _, _, _)
sumDeep(h, kids, property, i) ==
    IF i > Len(kids) THEN Num(0)
    ELSE JsAdd(JsAdd(JsOr(h[kids[i]].COUNTER[property], Num(0)),
                     sumDeep(h, h[kids[i]].PLANS, property, 1)),
               sumDeep(h, kids, property, i + 1))

calculateExclusives_deep(h, id) ==
    [h EXCEPT ![id].EXCLUSIVE =
        [property \in Counters |->
            JsSub(h[id].COUNTER[property], sumDeep(h, h[id].PLANS, property, 1))]]

\* PlanService.calculateExclusives on heap h, node id
calculateExclusives(h, id) ==
    [h EXCEPT ![id].EXCLUSIVE =
        [property \in Counters |->
            JsSub(h[id].COUNTER[property], sumByFrom(h, h[id].PLANS, property, 1))]]

\* a removal that stops after the first CTE child
RECURSIVE removeCTEs_first(_, _)
removeCTEs_first(h, kids) ==
    IF kids = <<>> THEN <<>>
    ELSE IF isCTE(h[Head(kids)]) THEN Tail(kids)
    ELSE <<Head(kids)>> \o removeCTEs_first(h, Tail(kids))

\* _.remove(node.Plans, child => this.isCTE(child))
RECURSIVE removeCTEs(_, _)
removeCTEs(h, kids) ==
    IF kids = <<>> THEN <<>>
    ELSE IF isCTE(h[Head(kids)]) THEN removeCTEs(h, Tail(kids))
    ELSE <<Head(kids)>> \o removeCTEs(h, Tail(kids))

\* the assignment of plan-service.ts:57-62 to child, a child of node
disseminateWorkers(node, child) ==
    IF /\ ~isCTE(child)
       /\ child.PARENT_RELATIONSHIP # "InitPlan"
       /\ child.PARENT_RELATIONSHIP # "SubPlan"
    THEN [child EXCEPT !.WORKERS_PLANNED_BY_GATHER =
              JsOr(node.WORKERS_PLANNED, node.WORKERS_PLANNED_BY_GATHER)]
    ELSE child

\* PlanService.processNode.  st = [heap, nodeId, ctes]: the node objects,
\* this.nodeId and plan.ctes.
RECURSIVE processNode(_, _), processChildren(_, _, _)
processNode(st, id) ==
    LET s1 == [st EXCEPT !.heap[id] = calculatePlannerEstimate(
                                         [@ EXCEPT !.nodeId = Num(st.nodeId)]),
                         !.nodeId = @ + 1]
        s2 == processChildren(s1, id, 1)
        h3 == [s2.heap EXCEPT ![id].PLANS = removeCTEs(s2.heap, @)]
    IN [s2 EXCEPT !.heap = calculateExclusives(calculateActuals(h3, id), id)]

\* the _.each of plan-service.ts:55-67, from the i-th child on
processChildren(st, id, i) ==
    IF i > Len(st.heap[id].PLANS) THEN st
    ELSE LET child == st.heap[id].PLANS[i]
             s1 == [st EXCEPT !.heap[child] = disseminateWorkers(st.heap[id], @)]
             s2 == IF isCTE(s1.heap[child])
                   THEN [s1 EXCEPT !.ctes = Append(@, child)]
                   ELSE s1
         IN processChildren(processNode(s2, child), id, i + 1)


\* recurse + _.flattenDeep of plan-service.ts:79-83: the nodes under h[id],
\* through Plans, in pre-order
RECURSIVE flatten(_, _), flattenAll(_, _)
flatten(h, id) == <<id>> \o flattenAll(h, h[id].PLANS)

flattenAll(h, kids) ==
    IF kids = <<>> THEN <<>>
    ELSE flatten(h, Head(kids)) \o flattenAll(h, Tail(kids))

\* _.maxBy over the values vs[1..]: the index of the first greatest value,
\* skipping undefined and NaN; 0 when there is none.  best is the index kept
\* so far, i the next index.
RECURSIVE maxByFrom(_, _, _)
maxByFrom(vs, best, i) ==
    IF i > Len(vs) THEN best
    ELSE LET current == vs[i]
             take == /\ ~IsUndefined(current)
                     /\ IF best = 0 THEN ~IsNaN(current)
                        ELSE JsGt(current, vs[best])
         IN maxByFrom(vs, IF take THEN i ELSE best, i + 1)

maxBy(vs) == maxByFrom(vs, 0, 1)

sumShared(o) ==
    JsAdd(JsAdd(JsAdd(o.EXCLUSIVE["SHARED_HIT_BLOCKS"],
                      o.EXCLUSIVE["SHARED_READ_BLOCKS"]),
                o.EXCLUSIVE["SHARED_DIRTIED_BLOCKS"]),
          o.EXCLUSIVE["SHARED_WRITTEN_BLOCKS"])

sumTemp(o) ==
    JsAdd(o.EXCLUSIVE["TEMP_READ_BLOCKS"], o.EXCLUSIVE["TEMP_WRITTEN_BLOCKS"])

sumLocal(o) ==
    JsAdd(JsAdd(JsAdd(o.EXCLUSIVE["LOCAL_HIT_BLOCKS"],
                      o.EXCLUSIVE["LOCAL_READ_BLOCKS"]),
                o.EXCLUSIVE["LOCAL_DIRTIED_BLOCKS"]),
          o.EXCLUSIVE["LOCAL_WRITTEN_BLOCKS"])

\* content before calculateMaximums: only Plan is set
RawContent(root) ==
    [Plan |-> root,
     maxRows |-> Undef, maxCost |-> Undef, maxTotalCost |-> Undef,
     maxDuration |-> Undef,
     maxBlocks |-> [shared |-> Undef, temp |-> Undef, local |-> Undef]]

\* PlanService.calculateMaximums: content with its maxima set
calculateMaximums(h, content) ==
    LET flat == flatten(h, content.Plan)
        pick(vs) == IF maxBy(vs) = 0 THEN Undef ELSE vs[maxBy(vs)]
        rows == [i \in 1..Len(flat) |-> h[flat[i]].ACTUAL_ROWS]
        costs == [i \in 1..Len(flat) |-> h[flat[i]].EXCLUSIVE_COST]
        totals == [i \in 1..Len(flat) |-> h[flat[i]].TOTAL_COST]
        durations == [i \in 1..Len(flat) |-> h[flat[i]].EXCLUSIVE_DURATION]
        shared == [i \in 1..Len(flat) |-> sumShared(h[flat[i]])]
        temp == [i \in 1..Len(flat) |-> sumTemp(h[flat[i]])]
        local == [i \in 1..Len(flat) |-> sumLocal(h[flat[i]])]
        block(vs) == IF Truthy(pick(vs)) THEN pick(vs) ELSE Undef
    IN [content EXCEPT
            !.maxRows = IF maxBy(rows) # 0 THEN pick(rows) ELSE @,
            !.maxCost = IF maxBy(costs) # 0 THEN pick(costs) ELSE @,
            !.maxTotalCost = IF maxBy(totals) # 0 THEN pick(totals) ELSE @,
            !.maxDuration = IF maxBy(durations) # 0 THEN pick(durations) ELSE @,
            !.maxBlocks = [shared |-> block(shared),
                           temp |-> block(temp),
                           local |-> block(local)]]

\* no plan has been created yet
NoPlan ==
    [content |-> RawContent(0), ctes |-> <<>>, isAnalyze |-> FALSE]

\* createPlan without the reset of this.nodeId
createPlan_noReset(h) ==
    LET st == processNode([heap |-> h, nodeId |-> nodeId + 1, ctes |-> <<>>], 1)
    IN [heap |-> st.heap,
        nodeId |-> st.nodeId,
        plan |-> [content |-> calculateMaximums(st.heap, RawContent(1)),
                  ctes |-> st.ctes,
                  isAnalyze |-> ~IsUndefined(h[1].ACTUAL_ROWS)]]

\* PlanService.createPlan on planContent = the node objects h with root
\* object 1.  Yields the node objects after the walk, the plan and
\* this.nodeId.  (id, name, createdOn and query come from the clock and the
\* caller and are read by nothing here.)
createPlan(h) ==
    LET st == processNode([heap |-> h, nodeId |-> 1, ctes |-> <<>>], 1)
    IN [heap |-> st.heap,
        nodeId |-> st.nodeId,
        plan |-> [content |-> calculateMaximums(st.heap, RawContent(1)),
                  ctes |-> st.ctes,
                  isAnalyze |-> ~IsUndefined(h[1].ACTUAL_ROWS)]]


(***************************************************************************)
(* The plan contents handed to createPlan: every tree of at most MaxNodes  *)
(* node objects, the nodes carrying the properties a parser can leave.     *)
(***************************************************************************)
MaxNodes == 3
MaxCalls == 2

CTEName == <<"C", "T", "E", " ", "x">>
CTELikeName == <<"C", "T", "E", "s">>
InitPlanName == <<"I", "n", "i", "t", "P", "l", "a", "n", " ", "1">>
SubPlanName == <<"S", "u", "b", "P", "l", "a", "n", " ", "1">>

\* the parent of every node but the root (object 1); a parent is older
Shapes(n) == {p \in [2..n -> 1..n] : \A i \in 2..n : p[i] < i}

RECURSIVE ChildrenFrom(_, _, _, _)
ChildrenFrom(p, n, i, j) ==
    IF j > n THEN <<>>
    ELSE (IF p[j] = i THEN <<j>> ELSE <<>>) \o ChildrenFrom(p, n, i, j + 1)

BuildHeap(n, p, a) ==
    [i \in 1..n |-> [a[i] EXCEPT !.PLANS = ChildrenFrom(p, n, i, 2)]]

WithRel(node, rel, name) ==
    [node EXCEPT !.PARENT_RELATIONSHIP = rel, !.SUBPLAN_NAME = name]

\* the ways a node hangs under its parent
Relations ==
    {WithRel(RawNode, Absent, NoStr),
     WithRel(RawNode, "InitPlan", Str(CTEName)),
     WithRel(RawNode, "InitPlan", Str(CTELikeName)),
     WithRel(RawNode, "InitPlan", Str(InitPlanName)),
     WithRel(RawNode, "SubPlan", Str(SubPlanName))}

\* nodes that differ in how they hang under their parent and in Workers Planned
RelNodes ==
    {[r EXCEPT !.WORKERS_PLANNED = w] : r \in Relations, w \in {Undef, Num(2)}}

WorkerNodes ==
    {[r EXCEPT !.WORKERS_PLANNED = w] :
        r \in {WithRel(RawNode, Absent, NoStr),
               WithRel(RawNode, "SubPlan", Str(SubPlanName))},
        w \in {Undef, Num(0), Num(2)}}

\* nodes that differ in Total Cost
CostNodes ==
    {[r EXCEPT !.TOTAL_COST = c] :
        r \in {WithRel(RawNode, Absent, NoStr),
               WithRel(RawNode, "InitPlan", Str(InitPlanName))},
        c \in {Undef, Num(0), Num(1), Num(3)}}
      \cup {[WithRel(RawNode, "InitPlan", Str(CTEName)) EXCEPT !.TOTAL_COST = Num(3)]}

Timed(node, total, startup, loops) ==
    [node EXCEPT !.ACTUAL_TOTAL_TIME = total, !.ACTUAL_STARTUP_TIME = startup,
                 !.ACTUAL_LOOPS = loops]

\* nodes that differ in their actual times and loops
TimeNodes ==
    {RawNode,
     Timed(RawNode, Num(0), Undef, Num(0)),
     Timed(RawNode, Num(6), Num(1), Num(1)),
     Timed(RawNode, Num(6), Num(1), Num(2)),
     Timed(RawNode, Num(6), Num(1), Undef),
     Timed(WithRel(RawNode, "InitPlan", Str(InitPlanName)), Num(2), Num(1), Num(1)),
     [Timed(RawNode, Num(6), Num(1), Num(1)) EXCEPT !.WORKERS_PLANNED = Num(2)]}

Rows(actual, estimated) ==
    [RawNode EXCEPT !.ACTUAL_ROWS = actual, !.PLAN_ROWS = estimated]

\* nodes that differ in their actual and estimated rows
RowNodes ==
    {Rows(r[1], r[2]) :
        r \in {<<Undef, Undef>>, <<Undef, Num(2)>>, <<Num(2), Undef>>,
               <<Num(0), Num(0)>>, <<Num(2), Num(2)>>, <<Num(1), Num(2)>>,
               <<Num(2), Num(1)>>, <<Num(0), Num(2)>>, <<Num(2), Num(0)>>}}

\* fewer of them, for the nodes below the root
RowKids ==
    {Rows(Undef, Undef), Rows(Num(0), Num(0)), Rows(Num(2), Undef),
     Rows(Num(2), Num(1))}

Counted(node, cs) ==
    [node EXCEPT !.COUNTER = [c \in Counters |->
                                 IF c \in DOMAIN cs THEN Num(cs[c]) ELSE Undef]]

\* the counters a Buffers or I/O Timings line leaves on a node
SharedHit1 ==
    [c \in {"SHARED_HIT_BLOCKS", "SHARED_READ_BLOCKS", "SHARED_DIRTIED_BLOCKS",
            "SHARED_WRITTEN_BLOCKS"} |-> IF c = "SHARED_HIT_BLOCKS" THEN 1 ELSE 0]
SharedTemp ==
    [c \in {"SHARED_HIT_BLOCKS", "SHARED_READ_BLOCKS", "SHARED_DIRTIED_BLOCKS",
            "SHARED_WRITTEN_BLOCKS", "TEMP_READ_BLOCKS", "TEMP_WRITTEN_BLOCKS"} |->
        CASE c = "SHARED_HIT_BLOCKS" -> 5
          [] c = "SHARED_READ_BLOCKS" -> 2
          [] c = "TEMP_WRITTEN_BLOCKS" -> 3
          [] OTHER -> 0]
IOTimings ==
    [c \in {"IO_READ_TIME", "IO_WRITE_TIME"} |-> IF c = "IO_READ_TIME" THEN 2 ELSE 0]

\* nodes that differ in their buffer and I/O counters
CounterNodes ==
    {Counted(r, cs) :
        r \in {WithRel(RawNode, Absent, NoStr),
               WithRel(RawNode, "InitPlan", Str(CTEName))},
        cs \in {<<>>, SharedHit1, SharedTemp, IOTimings}}

\* the root hangs under nothing
IsRoot(node) == node.PARENT_RELATIONSHIP = Absent /\ ~node.SUBPLAN_NAME.def

Family(nodes) == [roots |-> {r \in nodes : IsRoot(r)}, kids |-> nodes]

\* a content takes its root and its other nodes from one family
Families ==
    {Family(RelNodes), Family(WorkerNodes), Family(CostNodes), Family(TimeNodes),
     Family(CounterNodes), [roots |-> RowNodes, kids |-> RowKids]}

\* the contents of a call that follows another one on the same instance
LaterContents ==
    {BuildHeap(1, <<>>, <<RawNode>>),
     BuildHeap(3, <<0, 1, 1>>,
               <<RawNode, WithRel(RawNode, "InitPlan", Str(CTEName)), RawNode>>)}

\* the properties of a node that a parser sets: all but the ones the
\* enrichment walk adds
NonDerived(node) ==
    [PARENT_RELATIONSHIP |-> node.PARENT_RELATIONSHIP,
     SUBPLAN_NAME |-> node.SUBPLAN_NAME,
     PLANS |-> node.PLANS,
     WORKERS_PLANNED |-> node.WORKERS_PLANNED,
     ACTUAL_ROWS |-> node.ACTUAL_ROWS,
     PLAN_ROWS |-> node.PLAN_ROWS,
     ROWS_REMOVED_BY_FILTER |-> node.ROWS_REMOVED_BY_FILTER,
     ROWS_REMOVED_BY_JOIN_FILTER |-> node.ROWS_REMOVED_BY_JOIN_FILTER,
     ACTUAL_LOOPS |-> node.ACTUAL_LOOPS,
     ACTUAL_TOTAL_TIME |-> node.ACTUAL_TOTAL_TIME,
     ACTUAL_STARTUP_TIME |-> node.ACTUAL_STARTUP_TIME,
     TOTAL_COST |-> node.TOTAL_COST,
     COUNTER |-> node.COUNTER]

\* the node written out without its derived properties and read again
dropDerived(node) ==
    [RawNode EXCEPT
        !.PARENT_RELATIONSHIP = node.PARENT_RELATIONSHIP,
        !.SUBPLAN_NAME = node.SUBPLAN_NAME,
        !.PLANS = node.PLANS,
        !.WORKERS_PLANNED = node.WORKERS_PLANNED,
        !.ACTUAL_ROWS = node.ACTUAL_ROWS,
        !.PLAN_ROWS = node.PLAN_ROWS,
        !.ROWS_REMOVED_BY_FILTER = node.ROWS_REMOVED_BY_FILTER,
        !.ROWS_REMOVED_BY_JOIN_FILTER = node.ROWS_REMOVED_BY_JOIN_FILTER,
        !.ACTUAL_LOOPS = node.ACTUAL_LOOPS,
        !.ACTUAL_TOTAL_TIME = node.ACTUAL_TOTAL_TIME,
        !.ACTUAL_STARTUP_TIME = node.ACTUAL_STARTUP_TIME,
        !.TOTAL_COST = node.TOTAL_COST,
        !.COUNTER = node.COUNTER]

\* the position of the node object id in the pre-order of its tree
indexIn(order, id) == CHOOSE i \in 1..Len(order) : order[i] = id

\* the node with its children named by their positions in the pre-order: the
\* objects a parser makes of the written tree are new ones
renumbered(node, order) ==
    [node EXCEPT !.PLANS = [k \in 1..Len(@) |-> indexIn(order, @[k])]]

\* the content of a call that is handed the content.Plan of the plan made
\* before, written out without the derived properties and parsed again
reserialize(h) ==
    [i \in 1..Len(flatten(h, 1)) |->
        dropDerived(renumbered(h[flatten(h, 1)[i]], flatten(h, 1)))]

(***************************************************************************)
(* PlanService.parseJson.  The containers the handlers allocate live in a  *)
(* heap, by object identity; a container is an object or an array and      *)
(* holds its members in insertion order, an array under the keys "0", "1", *)
(* and so on.  A value is null, undefined, a number or a reference to a    *)
(* container.                                                              *)
(***************************************************************************)
JNull == [t |-> "null", n |-> 0]
JUndefined == [t |-> "undefined", n |-> 0]
JNumber(n) == [t |-> "number", n |-> n]
JRef(id) == [t |-> "ref", n |-> id]

IsRef(v) == v.t = "ref"

\* let duplicated: [number, any] | null = null
NoMarker == [set |-> FALSE, level |-> 0, v |-> JNull]
Marker(level, v) == [set |-> TRUE, level |-> level, v |-> v]

\* the keys of the elements of an array
IndexKeys == <<"0", "1", "2", "3", "4", "5", "6", "7">>

NewObject(key) == [arr |-> FALSE, m |-> <<[k |-> key, v |-> JNull]>>]
NewArray == [arr |-> TRUE, m |-> <<>>]

\* Object.keys(c).indexOf(key) !== -1
HasKey(c, key) == \E i \in 1..Len(c.m) : c.m[i].k = key

\* c[key], for a key c has
Get(c, key) == c.m[CHOOSE i \in 1..Len(c.m) : c.m[i].k = key].v

\* c[key] = v
Put(c, key, v) ==
    IF HasKey(c, key)
    THEN [c EXCEPT !.m = [i \in 1..Len(@) |-> IF @[i].k = key THEN [k |-> key, v |-> v] ELSE @[i]]]
    ELSE [c EXCEPT !.m = Append(@, [k |-> key, v |-> v])]

\* keys[keys.length - 1] of an object on the stack (it has a key since its creation)
lastKey(c) == c.m[Len(c.m)].k

\* current.push(v) for an array, current[lastKey] = v for an object
attach(c, v) ==
    IF c.arr
    THEN [c EXCEPT !.m = Append(@, [k |-> IndexKeys[Len(@) + 1], v |-> v])]
    ELSE Put(c, lastKey(c), v)

\* _.merge recurses into object[key] when the source value is a container and
\* object[key] is one it can merge into (an array for an array, any container
\* for an object)
mergesInto(h, d, e) ==
    /\ IsRef(e.v)
    /\ HasKey(h[d], e.k)
    /\ IsRef(Get(h[d], e.k))
    /\ h[e.v.n].arr => h[Get(h[d], e.k).n].arr

\* _.merge(h[d], h[c]) from the i-th member of the source on: the heap after it.
\* Where lodash assigns a fresh deep copy of a source container, the
\* container itself is assigned: the source is dropped after the merge.
RECURSIVE mergeFrom(_, _, _, _)
mergeFrom(h, d, c, i) ==
    IF i > Len(h[c].m) THEN h
    ELSE IF mergesInto(h, d, h[c].m[i])
    THEN mergeFrom(mergeFrom(h, Get(h[d], h[c].m[i].k).n, h[c].m[i].v.n, 1), d, c, i + 1)
    ELSE IF h[c].m[i].v = JUndefined
    THEN mergeFrom(h, d, c, i + 1)
    ELSE mergeFrom([h EXCEPT ![d] = Put(@, h[c].m[i].k, h[c].m[i].v)], d, c, i + 1)

\* _.merge(object, popped): a primitive or null object is wrapped in a fresh
\* object that is dropped, so that no container changes
merge(h, object, popped) ==
    IF IsRef(object) THEN mergeFrom(h, object.n, popped, 1) ELSE h

\* the events clarinet delivers
OpenObject(key) == [ev |-> "openobject", key |-> key, v |-> JNull]
Key(key) == [ev |-> "key", key |-> key, v |-> JNull]
Value(v) == [ev |-> "value", key |-> "", v |-> v]
OpenArray == [ev |-> "openarray", key |-> "", v |-> JNull]
CloseObject == [ev |-> "closeobject", key |-> "", v |-> JNull]
CloseArray == [ev |-> "closearray", key |-> "", v |-> JNull]

\* the events of the values a source is made of, by the name of the value:
\*   S  = 5                          A  = {"a":1}
\*   AN = {"a":1,"n":{"x":1}}        B  = {"b":2}
\*   BM = {"b":2,"m":[3]}            BD = {"b":2,"c":{"x":1},"c":{"y":2}}
ValueEvents(name) ==
    CASE name = "S" -> <<Value(JNumber(5))>>
      [] name = "A" -> <<OpenObject("a"), Value(JNumber(1)), CloseObject>>
      [] name = "AN" ->
            <<OpenObject("a"), Value(JNumber(1)), Key("n"),
              OpenObject("x"), Value(JNumber(1)), CloseObject, CloseObject>>
      [] name = "B" -> <<OpenObject("b"), Value(JNumber(2)), CloseObject>>
      [] name = "BM" ->
            <<OpenObject("b"), Value(JNumber(2)), Key("m"),
              OpenArray, Value(JNumber(3)), CloseArray, CloseObject>>
      [] name = "BD" ->
            <<OpenObject("b"), Value(JNumber(2)), Key("c"),
              OpenObject("x"), Value(JNumber(1)), CloseObject, Key("c"),
              OpenObject("y"), Value(JNumber(2)), CloseObject, CloseObject>>

\* the events of the entries i.. of an object: the first key comes with the
\* opening of the object, every later one as a key event
RECURSIVE EntryEvents(_, _)
EntryEvents(entries, i) ==
    IF i > Len(entries) THEN <<CloseObject>>
    ELSE <<IF i = 1 THEN OpenObject(entries[i].k) ELSE Key(entries[i].k)>>
            \o ValueEvents(entries[i].v) \o EntryEvents(entries, i + 1)

\* parser.write(source): the events of a source, an object of entries that
\* may stand inside a top-level array
Events(src) ==
    IF src.wrapped
    THEN <<OpenArray>> \o EntryEvents(src.entries, 1) \o <<CloseArray>>
    ELSE EntryEvents(src.entries, 1)

NoSource == [wrapped |-> FALSE, entries |-> <<>>]

MaxEntries == 4

\* the entries of a source object
SourceEntries ==
    {[k |-> "W", v |-> "A"], [k |-> "W", v |-> "AN"], [k |-> "W", v |-> "B"],
     [k |-> "W", v |-> "BM"], [k |-> "W", v |-> "BD"],
     [k |-> "X", v |-> "S"]}

(***************************************************************************)
(* Idle values of the subsystems a specification does not run.             *)
(***************************************************************************)
PlanIdle ==
    /\ nodeId = 0
    /\ given = <<>>
    /\ heap = <<>>
    /\ plan = NoPlan
    /\ calls = 0

JsonIdle ==
    /\ jsonPc = "idle"
    /\ jsrc = NoSource
    /\ jpos = 0
    /\ jheap = <<>>
    /\ elements = <<>>
    /\ duplicated = NoMarker
    /\ jroot = JNull

LinesIdle ==
    /\ linePc = "idle"
    /\ rawLines = <<>>
    /\ out = <<>>
    /\ outLost = NoStr

CleanIdle ==
    /\ cleanPc = "idle"
    /\ source = <<>>
    /\ cleaned = <<>>
    /\ cleanedTwice = <<>>

NoBlock == [prefix |-> <<>>, firstLineIndex |-> 0, lastLineIndex |-> 0, useSource |-> <<>>]

BlockIdle ==
    /\ blockPc = "idle"
    /\ sourceLines = <<>>
    /\ extracted = NoBlock

\* a list that is not set, and one that is
NoList == [def |-> FALSE, items |-> <<>>]
List(items) == [def |-> TRUE, items |-> items]

\* const root: any = {}; root.Plan = null
newRoot == [Plan |-> 0, Triggers |-> NoList, JIT |-> 0, props |-> {}]

TextIdle ==
    /\ textPc = "idle"
    /\ textLine = <<>>
    /\ lineCount = 0
    /\ elementsAtDepth = <<>>
    /\ objects = <<>>
    /\ textRoot = newRoot
    /\ thrown = ""

\* no event yet
NoEvent == [type |-> "none", inBody |-> FALSE, screenX |-> 0, screenY |-> 0]

DragIdle ==
    /\ listener = FALSE
    /\ started = FALSE
    /\ startMousePositionX = 0
    /\ startMousePositionY = 0
    /\ startScrollPositionX = 0
    /\ startScrollPositionY = 0
    /\ scrollLeft = 0
    /\ scrollTop = 0
    /\ lastEvent = NoEvent
    /\ scrolledTo = <<>>
    /\ pressed = FALSE

MoreIdle == BlockIdle /\ TextIdle /\ DragIdle

(***************************************************************************)
(* Spec: a PlanService on which createPlan is called up to MaxCalls times. *)
(***************************************************************************)
Init ==
    /\ nodeId = 0
    /\ \E n \in 1..MaxNodes, F \in Families :
          \E p \in Shapes(n), root \in F.roots, a \in [2..n -> F.kids] :
              given = BuildHeap(n, p, [i \in 1..n |-> IF i = 1 THEN root ELSE a[i]])
    /\ heap = <<>>
    /\ plan = NoPlan
    /\ calls = 0
    /\ JsonIdle /\ LinesIdle /\ CleanIdle /\ MoreIdle

\* PlanService.createPlan(planName, planContent, planQuery)
CreatePlan ==
    /\ calls < MaxCalls
    /\ \E content \in (IF calls = 0 THEN {given}
                        ELSE IF calls = 1 THEN LaterContents \cup {reserialize(heap)}
                        ELSE LaterContents) :
          LET r == createPlan(content)
          IN /\ given' = content
             /\ heap' = r.heap
             /\ plan' = r.plan
             /\ nodeId' = r.nodeId
    /\ calls' = calls + 1
    /\ UNCHANGED <<jsonVars, lineVars, cleanVars, moreVars>>

Next == CreatePlan

Spec == Init /\ [][Next]_vars

(***************************************************************************)
(* SpecJson: parseJson on a source of at most MaxEntries entries; clarinet *)
(* delivers the events of the source one by one, each to its handler.      *)
(***************************************************************************)
InitJson ==
    /\ jsonPc = "parsing"
    /\ \E n \in 1..MaxEntries : \E es \in [1..n -> SourceEntries], w \in BOOLEAN :
          jsrc = [wrapped |-> w, entries |-> es]
    /\ jpos = 0
    /\ jheap = <<>>
    /\ elements = <<>>
    /\ duplicated = NoMarker
    /\ jroot = JNull
    /\ PlanIdle /\ LinesIdle /\ CleanIdle /\ MoreIdle

\* the next event is of one of the kinds
NextEvent(kinds) ==
    /\ jsonPc = "parsing"
    /\ jpos < Len(Events(jsrc))
    /\ Events(jsrc)[jpos + 1].ev \in kinds

Delivered ==
    /\ jpos' = jpos + 1
    /\ UNCHANGED <<jsonPc, jsrc, planVars, lineVars, cleanVars, moreVars>>

\* the container on top of the stack
top == elements[Len(elements)]

\* parser.onvalue
OnValue ==
    /\ NextEvent({"value"})
    /\ jheap' = [jheap EXCEPT ![top] = attach(@, Events(jsrc)[jpos + 1].v)]
    /\ UNCHANGED <<elements, duplicated, jroot>>
    /\ Delivered

\* parser.onopenobject
OnOpenObject ==
    /\ NextEvent({"openobject"})
    /\ jheap' = Append(jheap, NewObject(Events(jsrc)[jpos + 1].key))
    /\ elements' = Append(elements, Len(jheap) + 1)
    /\ UNCHANGED <<duplicated, jroot>>
    /\ Delivered

\* parser.onkey
OnKey ==
    /\ NextEvent({"key"})
    /\ IF HasKey(jheap[top], Events(jsrc)[jpos + 1].key)
       THEN /\ duplicated' = Marker(Len(elements) - 1,
                                    Get(jheap[top], Events(jsrc)[jpos + 1].key))
            /\ jheap' = jheap
       ELSE /\ jheap' = [jheap EXCEPT ![top] = Put(@, Events(jsrc)[jpos + 1].key, JNull)]
            /\ duplicated' = duplicated
    /\ UNCHANGED <<elements, jroot>>
    /\ Delivered

\* parser.onopenarray
OnOpenArray ==
    /\ NextEvent({"openarray"})
    /\ jheap' = Append(jheap, NewArray)
    /\ elements' = Append(elements, Len(jheap) + 1)
    /\ UNCHANGED <<duplicated, jroot>>
    /\ Delivered

\* parser.oncloseobject = parser.onclosearray
OnClose ==
    /\ NextEvent({"closeobject", "closearray"})
    /\ elements' = SubSeq(elements, 1, Len(elements) - 1)
    /\ IF Len(elements) = 1
       THEN /\ jroot' = JRef(top)
            /\ UNCHANGED <<jheap, duplicated>>
       ELSE /\ jroot' = jroot
            /\ IF duplicated.set /\ duplicated.level = Len(elements) - 2
               THEN /\ jheap' = merge(jheap, duplicated.v, top)
                    /\ duplicated' = NoMarker
               ELSE /\ jheap' = [jheap EXCEPT ![elements[Len(elements) - 1]] =
                                                  attach(@, JRef(top))]
                    /\ duplicated' = duplicated
    /\ Delivered

\* root[0] of an array, undefined for an empty one
firstElement(c) == IF c.m = <<>> THEN JUndefined ELSE c.m[1].v

\* the end of parseJson: a root array is replaced by its first element
Return ==
    /\ jsonPc = "parsing"
    /\ jpos = Len(Events(jsrc))
    /\ jroot' = IF IsRef(jroot) /\ jheap[jroot.n].arr
                THEN firstElement(jheap[jroot.n])
                ELSE jroot
    /\ jsonPc' = "done"
    /\ UNCHANGED <<jsrc, jpos, jheap, elements, duplicated, planVars, lineVars, cleanVars,
                   moreVars>>

NextJson ==
    \/ OnValue
    \/ OnOpenObject
    \/ OnKey
    \/ OnOpenArray
    \/ OnClose
    \/ Return

SpecJson == InitJson /\ [][NextJson]_vars



(***************************************************************************)
(* TextParser.splitIntoLines.  A line is a sequence of characters.         *)
(***************************************************************************)
UpperCase ==
    <<"A", "B", "C", "D", "E", "F", "G", "H", "I", "J", "K", "L", "M",
      "N", "O", "P", "Q", "R", "S", "T", "U", "V", "W", "X", "Y", "Z">>
LowerCase ==
    <<"a", "b", "c", "d", "e", "f", "g", "h", "i", "j", "k", "l", "m",
      "n", "o", "p", "q", "r", "s", "t", "u", "v", "w", "x", "y", "z">>

\* the lower-case form of a character (the i flag of a regular expression)
Lower(c) ==
    IF \E i \in 1..26 : UpperCase[i] = c
    THEN LowerCase[CHOOSE i \in 1..26 : UpperCase[i] = c]
    ELSE c

\* \s
IsSpace(c) == c \in {" ", "\t", "\r", "\n"}

\* countChar(str, ch): the number of matches of the character ch in str
RECURSIVE countChar(_, _)
countChar(str, ch) ==
    IF str = <<>> THEN 0
    ELSE (IF Head(str) = ch THEN 1 ELSE 0) + countChar(Tail(str), ch)

\* str has the word w at position i, whatever the case
HasWordAt(str, i, w) ==
    /\ Len(str) >= i + Len(w) - 1
    /\ \A k \in 1..Len(w) : Lower(str[i + k - 1]) = Lower(w[k])

\* str starts with w1, some white space, w2, whatever the case
HasTwoWords(str, w1, w2) ==
    /\ HasWordAt(str, 1, w1)
    /\ \E j \in (Len(w1) + 2)..Len(str) :
          /\ \A k \in (Len(w1) + 1)..(j - 1) : IsSpace(str[k])
          /\ HasWordAt(str, j, w2)

\* /^(?:Total\s+runtime|Planning\s+time|Execution\s+time|Time|Filter|Output|JIT)/i
startsWithKeyword(line) ==
    \/ HasTwoWords(line, <<"T", "o", "t", "a", "l">>,
                   <<"r", "u", "n", "t", "i", "m", "e">>)
    \/ HasTwoWords(line, <<"P", "l", "a", "n", "n", "i", "n", "g">>,
                   <<"t", "i", "m", "e">>)
    \/ HasTwoWords(line, <<"E", "x", "e", "c", "u", "t", "i", "o", "n">>,
                   <<"t", "i", "m", "e">>)
    \/ HasWordAt(line, 1, <<"T", "i", "m", "e">>)
    \/ HasWordAt(line, 1, <<"F", "i", "l", "t", "e", "r">>)
    \/ HasWordAt(line, 1, <<"O", "u", "t", "p", "u", "t">>)
    \/ HasWordAt(line, 1, <<"J", "I", "T">>)

\* /^\S/
startsNonBlank(line) == line # <<>> /\ ~IsSpace(line[1])

\* /^\s*\(/
startsWithParenthesis(line) ==
    \E j \in 1..Len(line) : line[j] = "(" /\ \A k \in 1..(j - 1) : IsSpace(line[k])

\* out[out.length - 1] += line, for a non-empty out
appendToLast(lines, line) == [lines EXCEPT ![Len(lines)] = @ \o line]

\* the text of undefined + line
UndefinedText == <<"u", "n", "d", "e", "f", "i", "n", "e", "d">>

\* out[-1] += line: the property "-1" of the array, not one of its elements
appendToLost(lost, line) ==
    IF lost.def THEN Str(lost.s \o line) ELSE Str(UndefinedText \o line)

\* the callback of _.each(lines, ...) on acc = [out, lost]
splitLine(acc, line) ==
    IF countChar(line, ")") > countChar(line, "(")
    THEN IF acc.out # <<>>
         THEN [acc EXCEPT !.out = appendToLast(@, line)]
         ELSE [acc EXCEPT !.lost = appendToLost(@, line)]
    ELSE IF startsWithKeyword(line)
    THEN [acc EXCEPT !.out = Append(@, line)]
    ELSE IF (startsNonBlank(line) \/ startsWithParenthesis(line)) /\ acc.out # <<>>
    THEN [acc EXCEPT !.out = appendToLast(@, line)]
    ELSE [acc EXCEPT !.out = Append(@, line)]

\* TextParser.splitIntoLines on the lines of the text: [out, lost]
RECURSIVE splitIntoLines(_)
splitIntoLines(lines) ==
    IF lines = <<>> THEN [out |-> <<>>, lost |-> NoStr]
    ELSE splitLine(splitIntoLines(SubSeq(lines, 1, Len(lines) - 1)), lines[Len(lines)])

MaxLines == 3

\* the raw lines a text is made of
RawLineSet ==
    {<<>>,
     <<")">>,
     <<"x">>,
     <<" ", "y">>,
     <<" ", "(", "z", ")">>,
     <<" ", "-", ">", "(", "(", "v", ")">>,
     <<"J", "I", "T", ")">>,
     <<"t", "i", "m", "e", ":", "(">>,
     <<"T", "o", "t", "a", "l", " ", " ", "r", "u", "n", "t", "i", "m", "e">>}

(***************************************************************************)
(* SpecLines: splitIntoLines applied to a text of at most MaxLines lines.  *)
(***************************************************************************)
InitLines ==
    /\ linePc = "ready"
    /\ \E n \in 1..MaxLines : rawLines \in [1..n -> RawLineSet]
    /\ out = <<>>
    /\ outLost = NoStr
    /\ PlanIdle /\ JsonIdle /\ CleanIdle /\ MoreIdle

\* TextParser.splitIntoLines(text)
SplitIntoLines ==
    /\ linePc = "ready"
    /\ out' = splitIntoLines(rawLines).out
    /\ outLost' = splitIntoLines(rawLines).lost
    /\ linePc' = "done"
    /\ UNCHANGED <<rawLines, planVars, jsonVars, cleanVars, moreVars>>

NextLines == SplitIntoLines

SpecLines == InitLines /\ [][NextLines]_vars

(***************************************************************************)
(* PlanService.cleanupSource.  A source is a sequence of characters; the   *)
(* box-drawing characters and the return arrow are written by name:        *)
(*   BOX_V  U+2502   BOX_VV U+2551   BOX_H  U+2500   BOX_HH U+2550         *)
(*   TEE_L1..TEE_L4  U+251C U+255F U+2560 U+255E  (left ends of a ruler)   *)
(*   TEE_R1..TEE_R4  U+2524 U+2562 U+2563 U+2561  (right ends of a ruler)  *)
(*   BOT_L BOT_R U+2514 U+2518    BOTT_L BOTT_R U+255A U+255D              *)
(*   TOP_L TOP_R U+250C U+2510    TOPP_L TOPP_R U+2554 U+2557              *)
(*   RET   U+21B5                                                          *)
(***************************************************************************)
\* ^ under the m flag: the start of the input or just after a line terminator
IsLineStart(s, i) == i = 1 \/ s[i - 1] \in {"\n", "\r"}

\* the position of the first "\n" at or after position i, 0 when there is none
nextNewline(s, i) ==
    IF \E j \in i..Len(s) : s[j] = "\n"
    THEN CHOOSE j \in i..Len(s) : s[j] = "\n" /\ \A k \in i..(j - 1) : s[k] # "\n"
    ELSE 0

\* the characters from position i up to the \r?\n that ends at position j
bodyBefore(s, i, j) ==
    IF j - 1 >= i /\ s[j - 1] = "\r" THEN SubSeq(s, i, j - 2) ELSE SubSeq(s, i, j - 1)

\* the first position at or after i that holds no white space
firstNonSpace(s, i) ==
    IF \E k \in i..Len(s) : ~IsSpace(s[k])
    THEN CHOOSE k \in i..Len(s) : ~IsSpace(s[k]) /\ \A m \in i..(k - 1) : IsSpace(s[m])
    ELSE Len(s) + 1

\* b is one character c, then only characters of mid (at least one), then d
Ruled(b, c, mid, d) ==
    /\ Len(b) >= 3
    /\ b[1] = c
    /\ b[Len(b)] = d
    /\ \A k \in 2..(Len(b) - 1) : b[k] = mid

\* what stands between ^ and \r?\n in the line patterns of cleanupSource
matchesLine(kind, b) ==
    /\ \A k \in 1..Len(b) : b[k] \notin {"\n", "\r"}
    /\ CASE kind = "frame" ->
                Len(b) >= 2 /\ b[1] \in {"|", "BOX_VV", "BOX_V"} /\ b[Len(b)] = b[1]
         [] kind = "plusRuler" -> Ruled(b, "+", "-", "+")
         [] kind = "dashRuler" ->
                /\ Len(b) >= 2
                /\ b[1] \in {"-", "BOX_H", "BOX_HH"}
                /\ \A k \in 2..Len(b) : b[k] = b[1]
         [] kind = "teeRuler" ->
                /\ Len(b) >= 3
                /\ b[1] \in {"TEE_L1", "TEE_L2", "TEE_L3", "TEE_L4"}
                /\ b[2] \in {"BOX_H", "BOX_HH"}
                /\ \A k \in 3..(Len(b) - 1) : b[k] = b[2]
                /\ b[Len(b)] \in {"TEE_R1", "TEE_R2", "TEE_R3", "TEE_R4"}
         [] kind = "bottomLight" -> Ruled(b, "BOT_L", "BOX_H", "BOT_R")
         [] kind = "bottomDouble" -> Ruled(b, "BOTT_L", "BOX_HH", "BOTT_R")
         [] kind = "topLight" -> Ruled(b, "TOP_L", "BOX_H", "TOP_R")
         [] kind = "topDouble" -> Ruled(b, "TOPP_L", "BOX_HH", "TOPP_R")
         [] kind = "quote" ->
                Len(b) >= 2 /\ b[1] \in {"\"", "'"} /\ b[Len(b)] = b[1]

\* '$2\n' for frames and quotes, '' for the rulers
lineReplacement(kind, b) ==
    IF kind \in {"frame", "quote"}
    THEN Append(SubSeq(b, 2, Len(b) - 1), "\n")
    ELSE <<>>

\* a line pattern matches at position i
lineMatchAt(s, i, kind) ==
    /\ IsLineStart(s, i)
    /\ nextNewline(s, i) > 0
    /\ matchesLine(kind, bodyBefore(s, i, nextNewline(s, i)))

\* source.replace(/^...\r?\n/gm, ...) from position i on
RECURSIVE replaceLines(_, _, _)
replaceLines(s, i, kind) ==
    IF i > Len(s) THEN <<>>
    ELSE IF lineMatchAt(s, i, kind)
    THEN lineReplacement(kind, bodyBefore(s, i, nextNewline(s, i)))
            \o replaceLines(s, nextNewline(s, i) + 1, kind)
    ELSE <<s[i]>> \o replaceLines(s, i + 1, kind)

\* the end of \r?\n at position i, 0 when it does not match
newlineEnd(s, i) ==
    IF i <= Len(s) /\ s[i] = "\n" THEN i
    ELSE IF i + 1 <= Len(s) /\ s[i] = "\r" /\ s[i + 1] = "\n" THEN i + 1
    ELSE 0

\* the end of a match of /\s*\+\r?\n/ at position i, 0 when there is none
continuationEnd(s, i) ==
    IF firstNonSpace(s, i) <= Len(s) /\ s[firstNonSpace(s, i)] = "+"
    THEN newlineEnd(s, firstNonSpace(s, i) + 1)
    ELSE 0

\* source.replace(/\s*\+\r?\n/g, '\n') from position i on
RECURSIVE replaceContinuations(_, _)
replaceContinuations(s, i) ==
    IF i > Len(s) THEN <<>>
    ELSE IF continuationEnd(s, i) > 0
    THEN <<"\n">> \o replaceContinuations(s, continuationEnd(s, i) + 1)
    ELSE <<s[i]>> \o replaceContinuations(s, i + 1)

\* source.replace(/RET\r?/gm, '\n') from position i on
RECURSIVE replaceReturns(_, _)
replaceReturns(s, i) ==
    IF i > Len(s) THEN <<>>
    ELSE IF s[i] = "RET"
    THEN <<"\n">> \o replaceReturns(s, IF i < Len(s) /\ s[i + 1] = "\r" THEN i + 2 ELSE i + 1)
    ELSE <<s[i]>> \o replaceReturns(s, i + 1)

QueryPlan == <<"Q", "U", "E", "R", "Y", " ", "P", "L", "A", "N">>

\* the text w stands at position i of s
HasTextAt(s, i, w) ==
    /\ Len(s) >= i + Len(w) - 1
    /\ \A k \in 1..Len(w) : s[i + k - 1] = w[k]

\* the last "\n" of the white space that starts at position p, 0 when none
lastNewlineOfSpace(s, p) ==
    IF \E j \in p..(firstNonSpace(s, p) - 1) : s[j] = "\n"
    THEN CHOOSE j \in p..(firstNonSpace(s, p) - 1) :
            s[j] = "\n" /\ \A k \in (j + 1)..(firstNonSpace(s, p) - 1) : s[k] # "\n"
    ELSE 0

\* the end of a match of /^\s*QUERY PLAN\s*\r?\n/m at position i, 0 when none
headerEnd(s, i) ==
    IF IsLineStart(s, i) /\ HasTextAt(s, firstNonSpace(s, i), QueryPlan)
    THEN lastNewlineOfSpace(s, firstNonSpace(s, i) + Len(QueryPlan))
    ELSE 0

\* source.replace(/^\s*QUERY PLAN\s*\r?\n/m, ''): the first match only
removeHeader(s) ==
    IF \E i \in 1..Len(s) : headerEnd(s, i) > 0
    THEN LET i == CHOOSE i \in 1..Len(s) :
                     headerEnd(s, i) > 0 /\ \A k \in 1..(i - 1) : headerEnd(s, k) = 0
         IN SubSeq(s, 1, i - 1) \o SubSeq(s, headerEnd(s, i) + 1, Len(s))
    ELSE s

IsDigit(c) == c \in {"0", "1", "2", "3", "4", "5", "6", "7", "8", "9"}

IsLowerLetter(c) == \E i \in 1..26 : LowerCase[i] = c

\* the first position at or after i whose character is not of the class
firstNonDigit(s, i) ==
    IF \E k \in i..Len(s) : ~IsDigit(s[k])
    THEN CHOOSE k \in i..Len(s) : ~IsDigit(s[k]) /\ \A m \in i..(k - 1) : IsDigit(s[m])
    ELSE Len(s) + 1

firstNonLetter(s, i) ==
    IF \E k \in i..Len(s) : ~IsLowerLetter(s[k])
    THEN CHOOSE k \in i..Len(s) :
            ~IsLowerLetter(s[k]) /\ \A m \in i..(k - 1) : IsLowerLetter(s[m])
    ELSE Len(s) + 1

\* (\r?\n|$) after position l: the end of the match, 0 when it does not match
footerEnd(s, l) ==
    IF newlineEnd(s, l + 1) > 0 THEN newlineEnd(s, l + 1)
    ELSE IF l = Len(s) \/ s[l + 1] \in {"\n", "\r"} THEN l
    ELSE 0

\* the position of the ")" of /\d+\s+[a-z]*s?\)/ matched from position d, 0 when none
rowcountParen(s, d) ==
    IF /\ firstNonDigit(s, d) > d
       /\ firstNonSpace(s, firstNonDigit(s, d)) > firstNonDigit(s, d)
       /\ firstNonLetter(s, firstNonSpace(s, firstNonDigit(s, d))) <= Len(s)
       /\ s[firstNonLetter(s, firstNonSpace(s, firstNonDigit(s, d)))] = ")"
    THEN firstNonLetter(s, firstNonSpace(s, firstNonDigit(s, d)))
    ELSE 0

\* the end of a match of /^\(\d+\s+[a-z]*s?\)(\r?\n|$)/m at position i, 0 when none
rowcountEnd(s, i) ==
    IF IsLineStart(s, i) /\ s[i] = "(" /\ rowcountParen(s, i + 1) > 0
    THEN footerEnd(s, rowcountParen(s, i + 1))
    ELSE 0

\* source.replace(/^\(\d+\s+[a-z]*s?\)(\r?\n|$)/gm, '\n') from position i on
RECURSIVE replaceRowcounts(_, _)
replaceRowcounts(s, i) ==
    IF i > Len(s) THEN <<>>
    ELSE IF rowcountEnd(s, i) > 0
    THEN <<"\n">> \o replaceRowcounts(s, rowcountEnd(s, i) + 1)
    ELSE <<s[i]>> \o replaceRowcounts(s, i + 1)

\* the line patterns of cleanupSource, in the order of the code
LinePatterns ==
    <<"frame", "plusRuler", "dashRuler", "teeRuler", "plusRuler",
      "bottomLight", "bottomDouble", "topLight", "topDouble", "quote">>

\* the first n line patterns applied to s, one after the other
RECURSIVE cleanLines(_, _)
cleanLines(s, n) ==
    IF n = 0 THEN s
    ELSE replaceLines(cleanLines(s, n - 1), 1, LinePatterns[n])

\* PlanService.cleanupSource(source)
cleanupSource(s) ==
    replaceRowcounts(
        removeHeader(
            replaceReturns(
                replaceContinuations(cleanLines(s, Len(LinePatterns)), 1), 1)), 1)

MaxPieces == 2

\* the pieces a source is built from
SourcePieces ==
    {<<"|", "a", "|", "\n">>,
     <<"BOX_VV", "g", "BOX_VV", "\r", "\n">>,
     <<"+", "-", "-", "+", "\n">>,
     <<"-", "-", "\r", "\n">>,
     <<"TEE_L1", "BOX_H", "TEE_R1", "\n">>,
     <<"\"", "b", "\"", "\n">>,
     <<"\"", "|", "c", "|", "\"", "\n">>,
     <<"d", " ", "+", "\n">>,
     <<"e", "RET">>,
     <<" ", "Q", "U", "E", "R", "Y", " ", "P", "L", "A", "N", "\n">>,
     <<"(", "1", " ", "r", "o", "w", ")">>,
     <<"f", "\n">>}

(***************************************************************************)
(* SpecCleanup: cleanupSource applied to a source of at most MaxPieces     *)
(* pieces, and then to its own result.                                     *)
(***************************************************************************)
RECURSIVE Concat(_)
Concat(pieces) ==
    IF pieces = <<>> THEN <<>> ELSE Head(pieces) \o Concat(Tail(pieces))

InitCleanup ==
    /\ cleanPc = "ready"
    /\ \E n \in 1..MaxPieces : \E ps \in [1..n -> SourcePieces] : source = Concat(ps)
    /\ cleaned = <<>>
    /\ cleanedTwice = <<>>
    /\ PlanIdle /\ JsonIdle /\ LinesIdle /\ MoreIdle

\* cleanupSource(source), and cleanupSource of what it returned
CleanupSource ==
    /\ cleanPc \in {"ready", "once"}
    /\ IF cleanPc = "ready"
       THEN /\ cleaned' = cleanupSource(source)
            /\ cleanedTwice' = cleanedTwice
            /\ cleanPc' = "once"
       ELSE /\ cleanedTwice' = cleanupSource(cleaned)
            /\ cleaned' = cleaned
            /\ cleanPc' = "twice"
    /\ UNCHANGED <<source, planVars, jsonVars, lineVars, moreVars>>

NextCleanup == CleanupSource

SpecCleanup == InitCleanup /\ [][NextCleanup]_vars

(***************************************************************************)
(* PlanService.fromJson: the lines of the JSON block inside a source.      *)
(* Line indices are those of the code, from 0.                             *)
(***************************************************************************)
\* the white space a line starts with
leadingSpace(l) == SubSeq(l, 1, firstNonSpace(l, 1) - 1)

\* /^(\s*)(\[|\{)\s*$/
opensBlock(l) ==
    /\ firstNonSpace(l, 1) <= Len(l)
    /\ l[firstNonSpace(l, 1)] \in {"[", "{"}
    /\ firstNonSpace(l, firstNonSpace(l, 1) + 1) = Len(l) + 1

\* new RegExp('^' + prefix + '(\]|\})\s*$'): in the string literal \] \} and
\* \s stand for ] } and s, so that the pattern is ^prefix(]|})s*$
closesBlock(l, prefix) ==
    /\ Len(l) > Len(prefix)
    /\ SubSeq(l, 1, Len(prefix)) = prefix
    /\ l[Len(prefix) + 1] \in {"]", "}"}
    /\ \A k \in (Len(prefix) + 2)..Len(l) : l[k] = "s"

\* _.each(sourceLines, ...) with return false at the first line a pattern
\* matches: the index of that line, -1 when there is none
firstOpening(lines) ==
    IF \E i \in 1..Len(lines) : opensBlock(lines[i])
    THEN (CHOOSE i \in 1..Len(lines) :
             opensBlock(lines[i]) /\ \A k \in 1..(i - 1) : ~opensBlock(lines[k])) - 1
    ELSE -1

firstClosing(lines, prefix) ==
    IF \E i \in 1..Len(lines) : closesBlock(lines[i], prefix)
    THEN (CHOOSE i \in 1..Len(lines) :
             closesBlock(lines[i], prefix)
                 /\ \A k \in 1..(i - 1) : ~closesBlock(lines[k], prefix)) - 1
    ELSE -1

\* the index found by a loop, 0 (the initial value) when it found none
foundOrZero(index) == IF index < 0 THEN 0 ELSE index

\* prefix after the first loop
prefixOf(lines) ==
    IF firstOpening(lines) < 0 THEN <<>> ELSE leadingSpace(lines[firstOpening(lines) + 1])

\* sourceLines.slice(first, last + 1)
slice(lines, first, last) == SubSeq(lines, first + 1, last + 1)

\* PlanService.fromJson up to the call of parseJson: the locals and the
\* lines of useSource
fromJson(lines) ==
    [prefix |-> prefixOf(lines),
     firstLineIndex |-> foundOrZero(firstOpening(lines)),
     lastLineIndex |-> foundOrZero(firstClosing(lines, prefixOf(lines))),
     useSource |-> slice(lines, foundOrZero(firstOpening(lines)),
                         foundOrZero(firstClosing(lines, prefixOf(lines))))]

MaxSourceLines == 3

\* the lines a source with an embedded JSON block is made of
SourceLineSet ==
    {<<"{">>,
     <<" ", "[">>,
     <<"}">>,
     <<" ", "]">>,
     <<"}", " ">>,
     <<"}", "s">>,
     <<"x">>,
     <<" ", "\"", "a", "\"", ":", "1">>}

(***************************************************************************)
(* SpecBlock: fromJson on a source of at most MaxSourceLines lines.        *)
(***************************************************************************)
InitBlock ==
    /\ blockPc = "ready"
    /\ \E n \in 1..MaxSourceLines : sourceLines \in [1..n -> SourceLineSet]
    /\ extracted = NoBlock
    /\ PlanIdle /\ JsonIdle /\ LinesIdle /\ CleanIdle /\ TextIdle /\ DragIdle

\* PlanService.fromJson(source); parseJson is handed extracted.useSource
FromJson ==
    /\ blockPc = "ready"
    /\ extracted' = fromJson(sourceLines)
    /\ blockPc' = "done"
    /\ UNCHANGED <<sourceLines, planVars, jsonVars, lineVars, cleanVars, textVars, dragVars>>

NextBlock == FromJson

SpecBlock == InitBlock /\ [][NextBlock]_vars

(***************************************************************************)
(* TextParser.fromText.  The lines are those splitIntoLines returns; each  *)
(* is a sequence of characters.  A pattern operator gives the position     *)
(* after the text it matches at position i, 0 when it does not match.      *)
(***************************************************************************)
\* line.replace(/"\s*$/, '')
stripTrailingQuote(line) ==
    IF \E i \in 1..Len(line) : line[i] = "\"" /\ \A k \in (i + 1)..Len(line) : IsSpace(line[k])
    THEN SubSeq(line, 1, (CHOOSE i \in 1..Len(line) :
                             line[i] = "\"" /\ \A k \in (i + 1)..Len(line) : IsSpace(line[k])) - 1)
    ELSE line

\* line.replace(/^\s*"/, '')
stripLeadingQuote(line) ==
    IF firstNonSpace(line, 1) <= Len(line) /\ line[firstNonSpace(line, 1)] = "\""
    THEN SubSeq(line, firstNonSpace(line, 1) + 1, Len(line))
    ELSE line

\* the number of tabs of the line before position i
tabsBefore(line, i) == Cardinality({k \in 1..(i - 1) : line[k] = "\t"})

\* line.replace(/\t/gm, '    ')
expandTabs(line) ==
    [j \in 1..(Len(line) + 3 * tabsBefore(line, Len(line) + 1)) |->
        IF \E i \in 1..Len(line) : line[i] # "\t" /\ i + 3 * tabsBefore(line, i) = j
        THEN line[CHOOSE i \in 1..Len(line) : line[i] # "\t" /\ i + 3 * tabsBefore(line, i) = j]
        ELSE " "]

\* the line after the three replacements
withoutQuotes(line) == expandTabs(stripLeadingQuote(stripTrailingQuote(line)))

\* line.match(/^\s*/)[0].length
depthOf(line) == firstNonSpace(withoutQuotes(line), 1) - 1

\* line.replace(indentationRegex, '')
unindented(line) == SubSeq(withoutQuotes(line), depthOf(line) + 1, Len(withoutQuotes(line)))

\* a literal text
lit(s, i, w) == IF i > 0 /\ HasTextAt(s, i, w) THEN i + Len(w) ELSE 0

\* \d+
digits(s, i) == IF i > 0 /\ i <= Len(s) /\ IsDigit(s[i]) THEN firstNonDigit(s, i) ELSE 0

\* \d+\.\d+
decimal(s, i) == digits(s, lit(s, digits(s, i), <<".">>))

\* \s
oneSpace(s, i) == IF i > 0 /\ i <= Len(s) /\ IsSpace(s[i]) THEN i + 1 ELSE 0

\* \s+
someSpace(s, i) == IF i > 0 /\ i <= Len(s) /\ IsSpace(s[i]) THEN firstNonSpace(s, i) ELSE 0

\* \s*
anySpace(s, i) == IF i > 0 THEN firstNonSpace(s, i) ELSE 0

\* \s*$
endsAt(s, i) == i > 0 /\ firstNonSpace(s, i) = Len(s) + 1

\* . matches every character but a line terminator
IsDot(c) == c \notin {"\n", "\r"}

\* new RegExp('^\s*$'): in the string literal \s stands for the letter s
emptyLineMatches(line) == \A k \in 1..Len(line) : line[k] = "s"

\* '^\\s*(QUERY|---|#).*$'
headerMatches(line) ==
    /\ \/ lit(line, anySpace(line, 1), <<"Q", "U", "E", "R", "Y">>) > 0
       \/ lit(line, anySpace(line, 1), <<"-", "-", "-">>) > 0
       \/ lit(line, anySpace(line, 1), <<"#">>) > 0
    /\ \A k \in 1..Len(line) : IsDot(line[k])

\* estimationRegex
estimation(s, i) ==
    lit(s, digits(s, lit(s, someSpace(s, digits(s, lit(s, someSpace(s,
        decimal(s, lit(s, decimal(s, lit(s, i, <<"(", "c", "o", "s", "t", "=">>)), <<".", ".">>))),
        <<"r", "o", "w", "s", "=">>))), <<"w", "i", "d", "t", "h", "=">>)), <<")">>)

\* actual\stime=(\d+\.\d+)\.\.(\d+\.\d+)\srows=(\d+)\sloops=(\d+)
actualTime(s, i) ==
    digits(s, lit(s, oneSpace(s, digits(s, lit(s, oneSpace(s,
        decimal(s, lit(s, decimal(s, lit(s, oneSpace(s, lit(s, i, <<"a", "c", "t", "u", "a", "l">>)), <<"t", "i", "m", "e", "=">>)),
                       <<".", ".">>))),
        <<"r", "o", "w", "s", "=">>))), <<"l", "o", "o", "p", "s", "=">>))

\* actual\srows=(\d+)\sloops=(\d+)
actualRows(s, i) ==
    digits(s, lit(s, oneSpace(s, digits(s, lit(s, oneSpace(s, lit(s, i, <<"a", "c", "t", "u", "a", "l">>)),
                                              <<"r", "o", "w", "s", "=">>))), <<"l", "o", "o", "p", "s", "=">>))

\* (never\s+executed)
neverExecuted(s, i) == lit(s, someSpace(s, lit(s, i, <<"n", "e", "v", "e", "r">>)), <<"e", "x", "e", "c", "u", "t", "e", "d">>)

\* actualRegex
actualPart(s, i) ==
    IF actualTime(s, i) > 0 THEN actualTime(s, i)
    ELSE IF actualRows(s, i) > 0 THEN actualRows(s, i)
    ELSE neverExecuted(s, i)

\* openParenthesisRegex + actualRegex + closeParenthesisRegex
actualInParentheses(s, i) == lit(s, actualPart(s, lit(s, i, <<"(">>)), <<")">>)

\* the end of prefixRegex, '^(\\s*->\\s*|\\s*)'
prefixEnd(line) ==
    IF lit(line, anySpace(line, 1), <<"-", ">">>) > 0
    THEN anySpace(line, lit(line, anySpace(line, 1), <<"-", ">">>))
    ELSE anySpace(line, 1)

\* the first "(" of the line, where typeRegex ends, 0 when there is none
typeEnd(line) ==
    IF \E p \in 1..Len(line) : line[p] = "("
    THEN CHOOSE p \in 1..Len(line) : line[p] = "(" /\ \A k \in 1..(p - 1) : line[k] # "("
    ELSE 0

\* [^\r\n\t\f\v\:\(]
IsTypeChar(c) == c \notin {"\r", "\n", "\t", "\f", ":", "("}

\* the three alternatives of nodeRegex after the type, each up to \s*$
estimatedAndActual(line, p) ==
    endsAt(line, actualInParentheses(line, someSpace(line, estimation(line, p))))

estimatedOnly(line, p) == endsAt(line, estimation(line, p))

actualOnly(line, p) == endsAt(line, actualInParentheses(line, p))

\* nodeRegex.exec(line)
nodeMatches(line) ==
    /\ typeEnd(line) >= prefixEnd(line)
    /\ typeEnd(line) > 0
    /\ \A k \in prefixEnd(line)..(typeEnd(line) - 1) : IsTypeChar(line[k])
    /\ \/ estimatedAndActual(line, typeEnd(line))
       \/ estimatedOnly(line, typeEnd(line))
       \/ actualOnly(line, typeEnd(line))

\* the last position before p that holds no white space, 0 when there is none
lastNonSpaceBefore(s, p) ==
    IF \E k \in 1..(p - 1) : ~IsSpace(s[k])
    THEN CHOOSE k \in 1..(p - 1) : ~IsSpace(s[k]) /\ \A m \in (k + 1)..(p - 1) : IsSpace(s[m])
    ELSE 0

\* nodeMatches[2], the type of the node
nodeType(line) == SubSeq(line, prefixEnd(line), lastNonSpaceBefore(line, typeEnd(line)))

\* nodeMatches[13], never executed
nodeNeverExecuted(line) ==
    \/ /\ estimatedAndActual(line, typeEnd(line))
       /\ neverExecuted(line, lit(line, someSpace(line, estimation(line, typeEnd(line))), <<"(">>)) > 0
    \/ /\ ~estimatedAndActual(line, typeEnd(line))
       /\ ~estimatedOnly(line, typeEnd(line))
       /\ neverExecuted(line, typeEnd(line) + 1) > 0

\* (?:Sub|Init)Plan
subType(line) ==
    IF lit(line, anySpace(line, 1), <<"S", "u", "b", "P", "l", "a", "n">>) > 0 THEN <<"S", "u", "b", "P", "l", "a", "n">>
    ELSE IF lit(line, anySpace(line, 1), <<"I", "n", "i", "t", "P", "l", "a", "n">>) > 0 THEN <<"I", "n", "i", "t", "P", "l", "a", "n">>
    ELSE <<>>

\* (?:\d+\s*)?
optionalNumber(s, i) == IF digits(s, i) > 0 THEN anySpace(s, digits(s, i)) ELSE i

\* (?:\(returns.*\)\s*)?$
optionalReturns(s, i) ==
    \/ i = Len(s) + 1
    \/ /\ lit(s, i, <<"(", "r", "e", "t", "u", "r", "n", "s">>) > 0
       /\ \E j \in lit(s, i, <<"(", "r", "e", "t", "u", "r", "n", "s">>)..Len(s) :
             /\ s[j] = ")"
             /\ endsAt(s, j + 1)
             /\ \A k \in i..j : IsDot(s[k])

\* subRegex.exec(line)
subMatches(line) ==
    /\ subType(line) # <<>>
    /\ optionalReturns(line,
           anySpace(line, optionalNumber(line,
               anySpace(line, anySpace(line, 1) + Len(subType(line))))))

\* the first white space at or after i, Len(s) + 1 when there is none
firstSpace(s, i) ==
    IF \E k \in i..Len(s) : IsSpace(s[k])
    THEN CHOOSE k \in i..Len(s) : IsSpace(s[k]) /\ \A m \in i..(k - 1) : ~IsSpace(s[m])
    ELSE Len(s) + 1

\* the start of (\S+) in cteRegex, 0 when CTE\s+ does not match
cteNameStart(line) == someSpace(line, lit(line, anySpace(line, 1), <<"C", "T", "E">>))

\* cteRegex.exec(line)
cteMatches(line) ==
    /\ cteNameStart(line) > 0
    /\ cteNameStart(line) <= Len(line)
    /\ endsAt(line, firstSpace(line, cteNameStart(line)))

\* cteMatches[2]
cteName(line) == SubSeq(line, cteNameStart(line), firstSpace(line, cteNameStart(line)) - 1)

\* :\s+time=(\d+\.\d+)\s+calls=(\d+)\s*$ at position j
triggerTail(s, j) ==
    endsAt(s, digits(s, lit(s, someSpace(s, decimal(s, lit(s, someSpace(s, lit(s, j, <<":">>)),
                                                          <<"t", "i", "m", "e", "=">>))), <<"c", "a", "l", "l", "s", "=">>)))

\* the start of (.*) in triggerRegex, 0 when Trigger\s+ does not match
triggerNameStart(line) == someSpace(line, lit(line, anySpace(line, 1), <<"T", "r", "i", "g", "g", "e", "r">>))

\* triggerRegex.exec(line)
triggerMatches(line) ==
    /\ triggerNameStart(line) > 0
    /\ \E j \in triggerNameStart(line)..Len(line) :
          triggerTail(line, j) /\ \A k \in triggerNameStart(line)..(j - 1) : IsDot(line[k])

\* the position of the ":" that ends triggerMatches[2]
triggerColon(line) ==
    CHOOSE j \in triggerNameStart(line)..Len(line) : triggerTail(line, j)

\* triggerMatches[2], [3] and [4]
triggerName(line) == SubSeq(line, triggerNameStart(line), triggerColon(line) - 1)

triggerTimeStart(line) ==
    lit(line, someSpace(line, triggerColon(line) + 1), <<"t", "i", "m", "e", "=">>)

triggerTime(line) ==
    SubSeq(line, triggerTimeStart(line), decimal(line, triggerTimeStart(line)) - 1)

triggerCallsStart(line) ==
    lit(line, someSpace(line, decimal(line, triggerTimeStart(line))), <<"c", "a", "l", "l", "s", "=">>)

triggerCalls(line) ==
    SubSeq(line, triggerCallsStart(line), digits(line, triggerCallsStart(line)) - 1)

\* the start of (\d+) in workerRegex, 0 when Worker\s+ does not match
workerNumberStart(line) == someSpace(line, lit(line, anySpace(line, 1), <<"W", "o", "r", "k", "e", "r">>))

\* the end of /^(\s*)Worker\s+(\d+):\s+/
workerHeadEnd(line) ==
    someSpace(line, lit(line, digits(line, workerNumberStart(line)), <<":">>))

\* the end of (?:actualRegex)? after the head
workerActualEnd(line) ==
    IF actualPart(line, workerHeadEnd(line)) > 0 THEN actualPart(line, workerHeadEnd(line))
    ELSE workerHeadEnd(line)

\* workerRegex.exec(line)
workerMatches(line) ==
    /\ workerHeadEnd(line) > 0
    /\ \A k \in workerActualEnd(line)..Len(line) : IsDot(line[k])

\* workerMatches[2]
workerDigits(line) ==
    SubSeq(line, workerNumberStart(line), digits(line, workerNumberStart(line)) - 1)

\* workerMatches[3] && workerMatches[4]
workerHasTimes(line) == actualTime(line, workerHeadEnd(line)) > 0

\* workerMatches[10]
workerExtra(line) == SubSeq(line, workerActualEnd(line), Len(line))

\* jitRegex.exec(line)
jitMatches(line) == endsAt(line, lit(line, anySpace(line, 1), <<"J", "I", "T", ":">>))

\* extraRegex.exec(line)
extraMatches(line) ==
    /\ firstNonSpace(line, 1) < lastNonSpaceBefore(line, Len(line) + 1)
    /\ \A k \in firstNonSpace(line, 1)..lastNonSpaceBefore(line, Len(line) + 1) : IsDot(line[k])

\* extraMatches[2]
extraText(line) == SubSeq(line, firstNonSpace(line, 1), lastNonSpaceBefore(line, Len(line) + 1))

\* the branch of the callback that handles the line
branchOf(line) ==
    IF emptyLineMatches(line) \/ headerMatches(line) THEN "skip"
    ELSE IF nodeMatches(line) /\ ~cteMatches(line) /\ ~subMatches(line) THEN "node"
    ELSE IF subMatches(line) THEN "sub"
    ELSE IF cteMatches(line) THEN "cte"
    ELSE IF workerMatches(line) THEN "worker"
    ELSE IF triggerMatches(line) THEN "trigger"
    ELSE IF jitMatches(line) THEN "jit"
    ELSE IF extraMatches(line) THEN "extra"
    ELSE "none"

\* the text w stands somewhere in s
Contains(s, w) == \E i \in 1..Len(s) : HasTextAt(s, i, w)

\* the position of the first ": " of the text that has a character after it
\* and one before it, where text.split(/: (.+)/) cuts; 0 when there is none
labelEnd(text) ==
    IF \E c \in 1..(Len(text) - 2) : HasTextAt(text, c, <<":", " ">>) /\ IsDot(text[c + 2])
    THEN CHOOSE c \in 1..(Len(text) - 2) :
            /\ HasTextAt(text, c, <<":", " ">>) /\ IsDot(text[c + 2])
            /\ \A k \in 1..(c - 1) : ~(HasTextAt(text, k, <<":", " ">>) /\ IsDot(text[k + 2]))
    ELSE 0

\* info[1] of text.split(/: (.+)/).filter((x) => x) is set
hasValue(text) == labelEnd(text) > 1

\* info[0]
labelOf(text) == SubSeq(text, 1, labelEnd(text) - 1)

\* the upper-case form of a character
Upper(c) ==
    IF \E i \in 1..26 : LowerCase[i] = c
    THEN UpperCase[CHOOSE i \in 1..26 : LowerCase[i] = c]
    ELSE c

\* the positions _.startCase keeps of a label made of words and blanks: the
\* characters of the words and one blank between two words
keptByStartCase(s) ==
    {k \in 1..Len(s) :
        \/ ~IsSpace(s[k])
        \/ k > 1 /\ ~IsSpace(s[k - 1]) /\ \E m \in (k + 1)..Len(s) : ~IsSpace(s[m])}

\* _.startCase(label), for a label made of words of letters and blanks
startCase(s) ==
    [j \in 1..Cardinality(keptByStartCase(s)) |->
        LET k == CHOOSE k \in keptByStartCase(s) :
                     Cardinality({m \in keptByStartCase(s) : m < k}) = j - 1
        IN IF IsSpace(s[k]) THEN " "
           ELSE IF k = 1 \/ IsSpace(s[k - 1]) THEN Upper(s[k])
           ELSE s[k]]

\* the property an extra line sets (text.ts:389-392)
propertyOf(text) ==
    IF Contains(labelOf(text), <<" ", "r", "u", "n", "t", "i", "m", "e">>) \/ Contains(labelOf(text), <<" ", "t", "i", "m", "e">>)
    THEN startCase(labelOf(text))
    ELSE labelOf(text)

\* (\S*)kB at position t: the position after it, 0 when it does not match
kilobytes(s, t) ==
    IF t > 0 /\ firstSpace(s, t) - 2 >= t /\ HasTextAt(s, firstSpace(s, t) - 2, <<"k", "B">>)
    THEN firstSpace(s, t)
    ELSE 0

\* (Memory|Disk):\s+(?:(\S*)kB)\s*$ at position m
sortSpace(s, m) ==
    endsAt(s, kilobytes(s, someSpace(s, IF lit(s, m, <<"M", "e", "m", "o", "r", "y", ":">>) > 0 THEN lit(s, m, <<"M", "e", "m", "o", "r", "y", ":">>)
                                        ELSE lit(s, m, <<"D", "i", "s", "k", ":">>))))

\* the regular expression of parseSort
sortMatches(text) ==
    /\ lit(text, anySpace(text, 1), <<"S", "o", "r", "t", " ", "M", "e", "t", "h", "o", "d", ":">>) > 0
    /\ \E m \in (lit(text, anySpace(text, 1), <<"S", "o", "r", "t", " ", "M", "e", "t", "h", "o", "d", ":">>) + 2)..Len(text) :
          /\ IsSpace(text[lit(text, anySpace(text, 1), <<"S", "o", "r", "t", " ", "M", "e", "t", "h", "o", "d", ":">>)])
          /\ IsSpace(text[m - 1])
          /\ sortSpace(text, m)
    /\ \A k \in 1..Len(text) : IsDot(text[k])

\* the properties parseSort sets
SortProps == {<<"N", "o", "d", "e", "P", "r", "o", "p", ".", "S", "O", "R", "T", "_", "M", "E", "T", "H", "O", "D">>, <<"N", "o", "d", "e", "P", "r", "o", "p", ".", "S", "O", "R", "T", "_", "S", "P", "A", "C", "E", "_", "U", "S", "E", "D">>, <<"N", "o", "d", "e", "P", "r", "o", "p", ".", "S", "O", "R", "T", "_", "S", "P", "A", "C", "E", "_", "T", "Y", "P", "E">>}

\* w, some white space, then the rest of the line, somewhere in the text
hasBlock(text, w) ==
    \E i \in 1..Len(text) :
        /\ someSpace(text, lit(text, i, w)) > 0
        /\ \A k \in someSpace(text, lit(text, i, w))..Len(text) : IsDot(text[k])

\* the regular expressions of parseBuffers, parseWAL and parseIOTimings
buffersMatches(text) == hasBlock(text, <<"B", "u", "f", "f", "e", "r", "s", ":">>)

WALMatches(text) == hasBlock(text, <<"W", "A", "L", ":">>)

iotimingsMatches(text) == hasBlock(text, <<"I", "/", "O", " ", "T", "i", "m", "i", "n", "g", "s", ":">>)

\* the properties parseBuffers initiates for the types the text names
BufferProps(text) ==
    {type \o method \o <<" ", "B", "l", "o", "c", "k", "s">> :
        type \in {t \in {<<"S", "h", "a", "r", "e", "d">>, <<"T", "e", "m", "p">>, <<"L", "o", "c", "a", "l">>} :
                     \E i \in 1..Len(text) :
                         someSpace(text, lit(text, i, [k \in 1..Len(t) |->
                             IF k = 1 THEN Lower(t[k]) ELSE t[k]])) > 0},
        method \in {<<" ", "H", "i", "t">>, <<" ", "R", "e", "a", "d">>, <<" ", "W", "r", "i", "t", "t", "e", "n">>, <<" ", "D", "i", "r", "t", "i", "e", "d">>}}

\* the properties parseWAL and parseIOTimings initiate
WALProps == {<<"W", "A", "L", " ", "R", "e", "c", "o", "r", "d", "s">>, <<"W", "A", "L", " ", "B", "y", "t", "e", "s">>, <<"W", "A", "L", " ", "F", "P", "I">>}

IOTimingProps == {<<"N", "o", "d", "e", "P", "r", "o", "p", ".", "I", "O", "_", "R", "E", "A", "D", "_", "T", "I", "M", "E">>, <<"N", "o", "d", "e", "P", "r", "o", "p", ".", "I", "O", "_", "W", "R", "I", "T", "E", "_", "T", "I", "M", "E">>}

\* the start of (.*) after a label at the start of the text, 0 when the
\* label is not there; atLeastOne is \s+, otherwise \s*
blockStart(text, w, atLeastOne) ==
    IF atLeastOne THEN someSpace(text, lit(text, anySpace(text, 1), w))
    ELSE anySpace(text, lit(text, anySpace(text, 1), w))

\* the regular expressions of parseOptions, parseTiming and parseSettings
optionsMatches(text) ==
    /\ blockStart(text, <<"O", "p", "t", "i", "o", "n", "s", ":">>, TRUE) > 0
    /\ \A k \in blockStart(text, <<"O", "p", "t", "i", "o", "n", "s", ":">>, TRUE)..Len(text) : IsDot(text[k])

timingMatches(text) ==
    /\ blockStart(text, <<"T", "i", "m", "i", "n", "g", ":">>, TRUE) > 0
    /\ \A k \in blockStart(text, <<"T", "i", "m", "i", "n", "g", ":">>, TRUE)..Len(text) : IsDot(text[k])

settingsMatches(text) ==
    /\ blockStart(text, <<"S", "e", "t", "t", "i", "n", "g", "s", ":">>, FALSE) > 0
    /\ \A k \in blockStart(text, <<"S", "e", "t", "t", "i", "n", "g", "s", ":">>, FALSE)..Len(text) : IsDot(text[k])

\* the commas of s from position i on
commasFrom(s, i) == {k \in i..Len(s) : s[k] = ","}

\* the number of closing characters that position k of s is nested in
nesting(s, i, k) ==
    Cardinality({m \in i..(k - 1) : s[m] \in {"(", "["}})
        - Cardinality({m \in i..(k - 1) : s[m] \in {")", "]"}})

\* the pieces of s from position i on that the commas of the set cut it
\* into, each without the white space around it
piecesAt(s, i, commas) ==
    {SubSeq(s, firstNonSpace(s, a + 1), lastNonSpaceBefore(s, b)) :
        <<a, b>> \in {<<a, b>> \in ((commas \cup {i - 1}) \X (commas \cup {Len(s) + 1})) :
                         a < b /\ \A k \in commas : ~(a < k /\ k < b)}}

\* /^(\S*)\s+(.*)$/.exec(option) of parseOptions and parseTiming
optionMatches(option) ==
    /\ \E k \in 1..Len(option) : IsSpace(option[k])
    /\ \A k \in firstSpace(option, 1)..Len(option) : IsDot(option[k])

\* matches[2] of an option
optionValue(option) == SubSeq(option, firstNonSpace(option, firstSpace(option, 1)), Len(option))

\* JSON.parse(text) returns, for a text that holds no string, array or object
parsesAsJson(t) ==
    \/ t \in {<<"t", "r", "u", "e">>, <<"f", "a", "l", "s", "e">>, <<"n", "u", "l", "l">>}
    \/ digits(t, 1) = Len(t) + 1
    \/ decimal(t, 1) = Len(t) + 1

\* /^(\S*)\s+=\s+(.*)$/.exec(_.trim(option)) of parseSettings
settingMatches(option) ==
    /\ someSpace(option, lit(option, someSpace(option, firstSpace(option, 1)), <<"=">>)) > 0
    /\ \A k \in someSpace(option, lit(option, someSpace(option, firstSpace(option, 1)), <<"=">>))
                    ..Len(option) : IsDot(option[k])

\* the options of parseOptions and parseTiming: split(/\s*,\s*/)
optionsOf(text, start) == piecesAt(text, start, commasFrom(text, start))

\* the options of parseSettings: splitBalanced(settingsMatches[2], ','), which
\* cuts at the commas that are in no parenthesis or bracket, each trimmed
settingsOf(text, start) ==
    piecesAt(text, start, {k \in commasFrom(text, start) : nesting(text, start, k) = 0})

\* the error a sub-parser of an extra line throws, "" when it throws none
\* (text.ts:346-380)
NoError == ""
TypeError == "TypeError"
SyntaxError == "SyntaxError"

parseOptionsError(text) ==
    IF \E o \in optionsOf(text, blockStart(text, <<"O", "p", "t", "i", "o", "n", "s", ":">>, TRUE)) : ~optionMatches(o)
    THEN TypeError
    ELSE IF \E o \in optionsOf(text, blockStart(text, <<"O", "p", "t", "i", "o", "n", "s", ":">>, TRUE)) :
                ~parsesAsJson(optionValue(o))
    THEN SyntaxError
    ELSE NoError

parseTimingError(text) ==
    IF \E o \in optionsOf(text, blockStart(text, <<"T", "i", "m", "i", "n", "g", ":">>, TRUE)) : ~optionMatches(o)
    THEN TypeError
    ELSE NoError

parseSettingsError(text) ==
    IF \E o \in settingsOf(text, blockStart(text, <<"S", "e", "t", "t", "i", "n", "g", "s", ":">>, FALSE)) : ~settingMatches(o)
    THEN TypeError
    ELSE NoError

\* Sort Method[s]*: at position i
sortMethodsEnd(s, i) ==
    IF lit(s, i, <<"S", "o", "r", "t", " ", "M", "e", "t", "h", "o", "d">>) > 0
    THEN lit(s, CHOOSE m \in lit(s, i, <<"S", "o", "r", "t", " ", "M", "e", "t", "h", "o", "d">>)..(Len(s) + 1) :
                    /\ \A k \in lit(s, i, <<"S", "o", "r", "t", " ", "M", "e", "t", "h", "o", "d">>)..(m - 1) : s[k] = "s"
                    /\ (m > Len(s) \/ s[m] # "s"), <<":">>)
    ELSE 0

\* Peak Memory:\s+(\S*)kB.*$ at position p
peakMemory(s, p) ==
    /\ someSpace(s, lit(s, p, <<"P", "e", "a", "k", " ", "M", "e", "m", "o", "r", "y", ":">>)) > 0
    /\ \E e \in someSpace(s, lit(s, p, <<"P", "e", "a", "k", " ", "M", "e", "m", "o", "r", "y", ":">>))..(Len(s) - 1) :
          /\ HasTextAt(s, e, <<"k", "B">>)
          /\ \A k \in someSpace(s, lit(s, p, <<"P", "e", "a", "k", " ", "M", "e", "m", "o", "r", "y", ":">>))..e : ~IsSpace(s[k])
    /\ \A k \in p..Len(s) : IsDot(s[k])

\* \s+(.*)\s+Average Memory:\s+(\S*)kB\s+Peak Memory:\s+(\S*)kB.*$ at position i
sortGroupsMemory(s, i) ==
    /\ oneSpace(s, i) > 0
    /\ \E a \in (i + 2)..Len(s) :
          /\ IsSpace(s[a - 1])
          /\ peakMemory(s, someSpace(s, kilobytes(s, someSpace(s, lit(s, a, <<"A", "v", "e", "r", "a", "g", "e", " ", "M", "e", "m", "o", "r", "y", ":">>)))))
          /\ \A k \in i..a : IsDot(s[k])

\* \s+([0-9]*)\s+ at position g
groupCountEnd(s, g) ==
    IF digits(s, someSpace(s, g)) > 0 THEN someSpace(s, digits(s, someSpace(s, g)))
    ELSE IF oneSpace(s, oneSpace(s, g)) > 0 THEN anySpace(s, g)
    ELSE 0

\* sortGroupsRegex with w for (Full-sort|Pre-sorted)
sortGroupsMatch(text, w) ==
    /\ lit(text, anySpace(text, 1), w \o <<" ", "G", "r", "o", "u", "p", "s", ":">>) > 0
    /\ sortMethodsEnd(text, groupCountEnd(text, lit(text, anySpace(text, 1), w \o <<" ", "G", "r", "o", "u", "p", "s", ":">>))) > 0
    /\ sortGroupsMemory(text, sortMethodsEnd(text,
           groupCountEnd(text, lit(text, anySpace(text, 1), w \o <<" ", "G", "r", "o", "u", "p", "s", ":">>))))

\* matches[1] of sortGroupsRegex, <<>> when it does not match
sortGroupsMethod(text) ==
    IF sortGroupsMatch(text, <<"F", "u", "l", "l", "-", "s", "o", "r", "t">>) THEN <<"F", "u", "l", "l", "-", "s", "o", "r", "t">>
    ELSE IF sortGroupsMatch(text, <<"P", "r", "e", "-", "s", "o", "r", "t", "e", "d">>) THEN <<"P", "r", "e", "-", "s", "o", "r", "t", "e", "d">>
    ELSE <<>>

\* parseSortGroups: the property it sets; it throws 'Unsupported sort groups
\* method' for a method that is neither of the two (text.ts:443-449)
UnsupportedSortGroups == "Unsupported sort groups method"

parseSortGroupsError(text) ==
    IF sortGroupsMethod(text) \in {<<"F", "u", "l", "l", "-", "s", "o", "r", "t">>, <<"P", "r", "e", "-", "s", "o", "r", "t", "e", "d">>} THEN NoError
    ELSE UnsupportedSortGroups

SortGroupsProps(text) ==
    IF sortGroupsMethod(text) = <<"F", "u", "l", "l", "-", "s", "o", "r", "t">> THEN {<<"N", "o", "d", "e", "P", "r", "o", "p", ".", "F", "U", "L", "L", "_", "S", "O", "R", "T", "_", "G", "R", "O", "U", "P", "S">>}
    ELSE {<<"N", "o", "d", "e", "P", "r", "o", "p", ".", "P", "R", "E", "_", "S", "O", "R", "T", "E", "D", "_", "G", "R", "O", "U", "P", "S">>}

\* the end of ((?:Sort|Presorted) Key) at the start of the text, 0 when it
\* is not there
sortKeyEnd(text) ==
    IF lit(text, anySpace(text, 1), <<"S", "o", "r", "t", " ", "K", "e", "y">>) > 0
    THEN lit(text, anySpace(text, 1), <<"S", "o", "r", "t", " ", "K", "e", "y">>)
    ELSE lit(text, anySpace(text, 1), <<"P", "r", "e", "s", "o", "r", "t", "e", "d", " ", "K", "e", "y">>)

\* the regular expression of parseSortKey
sortKeyMatches(text) == someSpace(text, lit(text, sortKeyEnd(text), <<":">>)) > 0

\* sortMatches[1]
sortKeyName(text) == SubSeq(text, anySpace(text, 1), sortKeyEnd(text) - 1)

\* the sub-parser that handles the text of an extra line, "" when none does
subParserOf(text) ==
    IF sortMatches(text) THEN "parseSort"
    ELSE IF buffersMatches(text) THEN "parseBuffers"
    ELSE IF WALMatches(text) THEN "parseWAL"
    ELSE IF iotimingsMatches(text) THEN "parseIOTimings"
    ELSE IF optionsMatches(text) THEN "parseOptions"
    ELSE IF timingMatches(text) THEN "parseTiming"
    ELSE IF settingsMatches(text) THEN "parseSettings"
    ELSE IF sortGroupsMethod(text) # <<>> THEN "parseSortGroups"
    ELSE IF sortKeyMatches(text) THEN "parseSortKey"
    ELSE ""

\* the error the sub-parsers throw on the text
subParserError(text) ==
    IF subParserOf(text) = "parseOptions" THEN parseOptionsError(text)
    ELSE IF subParserOf(text) = "parseTiming" THEN parseTimingError(text)
    ELSE IF subParserOf(text) = "parseSettings" THEN parseSettingsError(text)
    ELSE IF subParserOf(text) = "parseSortGroups" THEN parseSortGroupsError(text)
    ELSE NoError

\* the properties the sub-parsers and the last lines of the extra branch
\* set on the element
extraProps(text) ==
    IF subParserOf(text) = "parseSort" THEN SortProps
    ELSE IF subParserOf(text) = "parseBuffers" THEN BufferProps(text)
    ELSE IF subParserOf(text) = "parseWAL" THEN WALProps
    ELSE IF subParserOf(text) = "parseIOTimings" THEN IOTimingProps
    ELSE IF subParserOf(text) = "parseOptions" THEN {<<"O", "p", "t", "i", "o", "n", "s">>}
    ELSE IF subParserOf(text) = "parseTiming" THEN {<<"T", "i", "m", "i", "n", "g">>}
    ELSE IF subParserOf(text) = "parseSettings" THEN {<<"S", "e", "t", "t", "i", "n", "g", "s">>}
    ELSE IF subParserOf(text) = "parseSortGroups" THEN SortGroupsProps(text)
    ELSE IF subParserOf(text) = "parseSortKey" THEN {sortKeyName(text)}
    ELSE {propertyOf(text)}

\* the value of a digit
digitValue(c) == CHOOSE v \in 0..9 : <<"0", "1", "2", "3", "4", "5", "6", "7", "8", "9">>[v + 1] = c

\* parseInt(text, 0) of a text of decimal digits
RECURSIVE parseInt(_)
parseInt(ds) ==
    IF ds = <<>> THEN 0
    ELSE 10 * parseInt(SubSeq(ds, 1, Len(ds) - 1)) + digitValue(ds[Len(ds)])

RECURSIVE powerOfTen(_)
powerOfTen(n) == IF n = 0 THEN 1 ELSE 10 * powerOfTen(n - 1)

\* parseFloat(text) of a text \d+\.\d+
parseFloat(t) ==
    Rat(parseInt(SubSeq(t, 1, digits(t, 1) - 1) \o SubSeq(t, digits(t, 1) + 1, Len(t))),
        powerOfTen(Len(t) - digits(t, 1)))

\* the position of the actual part of a node line, after its "(", 0 when the
\* line has none
nodeActualStart(line) ==
    IF estimatedAndActual(line, typeEnd(line))
    THEN lit(line, someSpace(line, estimation(line, typeEnd(line))), <<"(">>)
    ELSE IF estimatedOnly(line, typeEnd(line)) THEN 0
    ELSE typeEnd(line) + 1

\* the properties the node branch sets on newNode (text.ts:180-201)
nodeProps(line) ==
    (IF estimatedAndActual(line, typeEnd(line)) \/ estimatedOnly(line, typeEnd(line))
     THEN {<<"N", "o", "d", "e", "P", "r", "o", "p", ".", "S", "T", "A", "R", "T", "U", "P", "_", "C", "O", "S", "T">>, <<"N", "o", "d", "e", "P", "r", "o", "p", ".", "T", "O", "T", "A", "L", "_", "C", "O", "S", "T">>,
           <<"N", "o", "d", "e", "P", "r", "o", "p", ".", "P", "L", "A", "N", "_", "R", "O", "W", "S">>, <<"N", "o", "d", "e", "P", "r", "o", "p", ".", "P", "L", "A", "N", "_", "W", "I", "D", "T", "H">>}
     ELSE {})
    \cup (IF actualTime(line, nodeActualStart(line)) > 0
          THEN {<<"N", "o", "d", "e", "P", "r", "o", "p", ".", "A", "C", "T", "U", "A", "L", "_", "S", "T", "A", "R", "T", "U", "P", "_", "T", "I", "M", "E">>, <<"N", "o", "d", "e", "P", "r", "o", "p", ".", "A", "C", "T", "U", "A", "L", "_", "T", "O", "T", "A", "L", "_", "T", "I", "M", "E">>}
          ELSE {})
    \cup (IF actualTime(line, nodeActualStart(line)) > 0
             \/ actualRows(line, nodeActualStart(line)) > 0
          THEN {<<"N", "o", "d", "e", "P", "r", "o", "p", ".", "A", "C", "T", "U", "A", "L", "_", "R", "O", "W", "S">>, <<"N", "o", "d", "e", "P", "r", "o", "p", ".", "A", "C", "T", "U", "A", "L", "_", "L", "O", "O", "P", "S">>}
          ELSE {})
    \cup (IF nodeNeverExecuted(line)
          THEN {<<"N", "o", "d", "e", "P", "r", "o", "p", ".", "A", "C", "T", "U", "A", "L", "_", "L", "O", "O", "P", "S">>, <<"N", "o", "d", "e", "P", "r", "o", "p", ".", "A", "C", "T", "U", "A", "L", "_", "R", "O", "W", "S">>, <<"N", "o", "d", "e", "P", "r", "o", "p", ".", "A", "C", "T", "U", "A", "L", "_", "T", "O", "T", "A", "L", "_", "T", "I", "M", "E">>}
          ELSE {})

\* the properties the worker branch sets on the worker (text.ts:272-291)
workerProps(line) ==
    (IF workerHasTimes(line)
     THEN {<<"N", "o", "d", "e", "P", "r", "o", "p", ".", "A", "C", "T", "U", "A", "L", "_", "S", "T", "A", "R", "T", "U", "P", "_", "T", "I", "M", "E">>, <<"N", "o", "d", "e", "P", "r", "o", "p", ".", "A", "C", "T", "U", "A", "L", "_", "T", "O", "T", "A", "L", "_", "T", "I", "M", "E">>,
           <<"N", "o", "d", "e", "P", "r", "o", "p", ".", "A", "C", "T", "U", "A", "L", "_", "R", "O", "W", "S">>, <<"N", "o", "d", "e", "P", "r", "o", "p", ".", "A", "C", "T", "U", "A", "L", "_", "L", "O", "O", "P", "S">>}
     ELSE {})
    \cup (IF sortMatches(workerExtra(line)) THEN SortProps
          ELSE IF hasValue(workerExtra(line)) THEN {startCase(labelOf(workerExtra(line)))}
          ELSE {})

\* WorkerProp.WORKER_NUMBER, the key of the number of a worker
WORKER_NUMBER == <<"W", "o", "r", "k", "e", "r", " ", "N", "u", "m", "b", "e", "r">>

\* info[1] of text.split(/: (.+)/).filter((x) => x)
valueOf(text) == SubSeq(text, labelEnd(text) + 2, Len(text))

\* worker[property] = info[1] with property the key of the number: the text
\* that takes the place of the number (text.ts:283-290)
workerOverwrites(line) ==
    IF /\ ~sortMatches(workerExtra(line))
       /\ hasValue(workerExtra(line))
       /\ startCase(labelOf(workerExtra(line))) = WORKER_NUMBER
    THEN Str(valueOf(workerExtra(line)))
    ELSE NoStr

\* list = list || []; list.push(item)
push(list, item) == List(Append(list.items, item))

\* what the callback of fromText reads off a line: its depth, the branch
\* that handles it, the groups of the regular expression of that branch,
\* and whether splitIntoLines gives the line as one of its own, as the first
\* line and after another
matchLine(l) ==
    [line |-> l,
     depth |-> depthOf(l),
     branch |-> branchOf(unindented(l)),
     type |-> IF branchOf(unindented(l)) = "node" THEN nodeType(unindented(l)) ELSE <<>>,
     subelementType |->
              IF branchOf(unindented(l)) = "sub"
              THEN [k \in 1..Len(subType(unindented(l))) |-> Lower(subType(unindented(l))[k])]
              ELSE IF branchOf(unindented(l)) = "cte" THEN <<"i", "n", "i", "t", "p", "l", "a", "n">>
              ELSE <<"s", "u", "b", "n", "o", "d", "e">>,
     name |-> IF branchOf(unindented(l)) = "sub" THEN unindented(l)
              ELSE IF branchOf(unindented(l)) = "cte" THEN <<"C", "T", "E", " ">> \o cteName(unindented(l))
              ELSE IF branchOf(unindented(l)) = "trigger" THEN triggerName(unindented(l))
              ELSE <<>>,
     number |-> IF branchOf(unindented(l)) = "worker" THEN parseInt(workerDigits(unindented(l)))
                ELSE 0,
     overwrites |-> IF branchOf(unindented(l)) = "worker" THEN workerOverwrites(unindented(l))
                    ELSE NoStr,
     time |-> IF branchOf(unindented(l)) = "trigger" THEN parseFloat(triggerTime(unindented(l)))
              ELSE Undef,
     calls |-> IF branchOf(unindented(l)) = "trigger" THEN triggerCalls(unindented(l))
               ELSE <<>>,
     hasValue |-> branchOf(unindented(l)) = "extra" /\ hasValue(extraText(unindented(l))),
     error |-> IF branchOf(unindented(l)) = "extra" /\ hasValue(extraText(unindented(l)))
               THEN subParserError(extraText(unindented(l)))
               ELSE NoError,
     props |-> IF branchOf(unindented(l)) = "node" THEN nodeProps(unindented(l))
               ELSE IF branchOf(unindented(l)) = "worker" THEN workerProps(unindented(l))
               ELSE IF branchOf(unindented(l)) = "extra" /\ hasValue(extraText(unindented(l)))
               THEN extraProps(extraText(unindented(l)))
               ELSE {},
     first |-> splitLine([out |-> <<>>, lost |-> NoStr], l).out = <<l>>,
     own |-> splitLine([out |-> <<<<>>>>, lost |-> NoStr], l).out = <<<<>>, l>>]

\* the lines of a text, as splitIntoLines returns them
TextLineSet ==
    {<<" ", "R", "e", "s", "u", "l", "t", " ", " ", "(", "c", "o", "s", "t", "=", "0", ".", "0", "0", ".", ".", "9", ".", "0", "0", " ", "r", "o", "w", "s", "=", "1", " ", "w", "i", "d", "t", "h", "=", "4", ")">>,
     <<" ", " ", " ", "-", ">", " ", " ", "S", "e", "q", " ", "S", "c", "a", "n", " ", "o", "n", " ", "t", " ", " ", "(", "c", "o", "s", "t", "=", "0", ".", "0", "0", ".", ".", "1", ".", "0", "0", " ", "r", "o", "w", "s", "=", "1", " ", "w", "i", "d", "t", "h", "=", "4", ")", " ", "(", "a", "c", "t", "u", "a", "l", " ", "t", "i", "m", "e", "=", "0", ".", "0", "1", ".", ".", "0", ".", "0", "2", " ", "r", "o", "w", "s", "=", "1", " ", "l", "o", "o", "p", "s", "=", "1", ")">>,
     <<"\t", " ", "-", ">", " ", " ", "S", "o", "r", "t", " ", " ", "(", "n", "e", "v", "e", "r", " ", "e", "x", "e", "c", "u", "t", "e", "d", ")">>,
     <<" ", " ", " ", "S", "u", "b", "P", "l", "a", "n", " ", "1">>,
     <<" ", " ", "C", "T", "E", " ", "x">>,
     <<" ", " ", " ", "I", "n", "i", "t", "P", "l", "a", "n", " ", "2", " ", "(", "r", "e", "t", "u", "r", "n", "s", " ", "$", "0", ")">>,
     <<" ", " ", " ", " ", " ", "W", "o", "r", "k", "e", "r", " ", "0", ":", " ", "a", "c", "t", "u", "a", "l", " ", "t", "i", "m", "e", "=", "0", ".", "0", "1", ".", ".", "0", ".", "0", "2", " ", "r", "o", "w", "s", "=", "1", " ", "l", "o", "o", "p", "s", "=", "1">>,
     <<" ", " ", " ", " ", " ", "W", "o", "r", "k", "e", "r", " ", "0", "0", ":", " ", "S", "o", "r", "t", " ", "M", "e", "t", "h", "o", "d", ":", " ", "q", "u", "i", "c", "k", "s", "o", "r", "t", " ", " ", "M", "e", "m", "o", "r", "y", ":", " ", "2", "5", "k", "B">>,
     <<" ", " ", " ", " ", " ", "W", "o", "r", "k", "e", "r", " ", "0", ":", " ", "W", "o", "r", "k", "e", "r", " ", "N", "u", "m", "b", "e", "r", ":", " ", "1">>,
     <<" ", "T", "r", "i", "g", "g", "e", "r", " ", "t", ":", " ", "t", "i", "m", "e", "=", "1", ".", "5", " ", "c", "a", "l", "l", "s", "=", "2">>,
     <<"J", "I", "T", ":">>,
     <<" ", " ", " ", " ", " ", " ", " ", "J", "I", "T", ":">>,
     <<" ", "P", "l", "a", "n", "n", "i", "n", "g", " ", "T", "i", "m", "e", ":", " ", "0", ".", "1", " ", "m", "s">>,
     <<" ", " ", " ", " ", " ", "S", "e", "t", "t", "i", "n", "g", "s", ":", " ", "a">>,
     <<" ", "Q", "U", "E", "R", "Y", " ", "P", "L", "A", "N">>}

\* what the callback reads off each of them
Matched == {matchLine(l) : l \in TextLineSet}

\* new Node(type) with the properties of the node line
newNode(m) ==
    [kind |-> "node", type |-> m.type, Plans |-> NoList, Workers |-> NoList,
     parentRelationship |-> NoStr, subplanName |-> NoStr,
     number |-> 0, overwritten |-> NoStr, JIT |-> 0, props |-> m.props]

\* new Worker(workerNumber): the number is the property WORKER_NUMBER of the
\* worker; overwritten is the text an extra of a Worker line has put in its
\* place
newWorker(workerNumber) ==
    [kind |-> "worker", type |-> <<>>, Plans |-> NoList, Workers |-> NoList,
     parentRelationship |-> NoStr, subplanName |-> NoStr,
     number |-> workerNumber, overwritten |-> NoStr, JIT |-> 0, props |-> {}]

\* {}, the object of root.JIT and of worker.JIT
newJIT ==
    [kind |-> "jit", type |-> <<>>, Plans |-> NoList, Workers |-> NoList,
     parentRelationship |-> NoStr, subplanName |-> NoStr,
     number |-> 0, overwritten |-> NoStr, JIT |-> 0, props |-> {}]

\* _.remove(elementsAtDepth, (e) => e[0] >= depth): what is left
RECURSIVE removeDeeper(_, _)
removeDeeper(frames, depth) ==
    IF frames = <<>> THEN <<>>
    ELSE IF frames[Len(frames)].depth >= depth
    THEN removeDeeper(SubSeq(frames, 1, Len(frames) - 1), depth)
    ELSE Append(removeDeeper(SubSeq(frames, 1, Len(frames) - 1), depth),
                frames[Len(frames)])

\* _.last(elementsAtDepth)![1], for a list that is not empty
previousElement(frames) == frames[Len(frames)]

\* the node with the label of the element it is put under (text.ts:227-233)
labelled(node, previous) ==
    IF previous.subelementType = <<"i", "n", "i", "t", "p", "l", "a", "n">>
    THEN [node EXCEPT !.parentRelationship = Str(<<"I", "n", "i", "t", "P", "l", "a", "n">>), !.subplanName = Str(previous.name)]
    ELSE IF previous.subelementType = <<"s", "u", "b", "p", "l", "a", "n">>
    THEN [node EXCEPT !.parentRelationship = Str(<<"S", "u", "b", "P", "l", "a", "n">>), !.subplanName = Str(previous.name)]
    ELSE node

\* worker[WorkerProp.WORKER_NUMBER] === workerNumber: a text is no number
hasNumber(worker, workerNumber) ==
    ~worker.overwritten.def /\ worker.number = workerNumber

\* getWorker(node, workerNumber): the worker of the list with the number,
\* 0 when there is none (_.find gives the first)
getWorker(objs, workers, workerNumber) ==
    IF \E i \in 1..Len(workers) : hasNumber(objs[workers[i]], workerNumber)
    THEN workers[CHOOSE i \in 1..Len(workers) :
                    /\ hasNumber(objs[workers[i]], workerNumber)
                    /\ \A k \in 1..(i - 1) : ~hasNumber(objs[workers[k]], workerNumber)]
    ELSE 0

MaxTextLines == 4

\* [depth, element] of elementsAtDepth
Element(depth, node, subelementType, name) ==
    [depth |-> depth, node |-> node, subelementType |-> subelementType, name |-> name]

\* previousElement.node.Plans.push(newNode), newNode being a new object
pushPlan(objs, previous, node) ==
    Append([objs EXCEPT ![previous.node].Plans = push(@, Len(objs) + 1)],
           labelled(node, previous))

\* the worker branch on the node of the last element (text.ts:264-291)
updateWorker(objs, node, m) ==
    IF getWorker(objs, objs[node].Workers.items, m.number) # 0
    THEN [objs EXCEPT ![getWorker(objs, objs[node].Workers.items, m.number)] =
                          [@ EXCEPT !.props = @ \cup m.props,
                                    !.overwritten = IF m.overwrites.def THEN m.overwrites
                                                    ELSE @]]
    ELSE Append([objs EXCEPT ![node].Workers = push(@, Len(objs) + 1)],
                [newWorker(m.number) EXCEPT !.props = m.props,
                                            !.overwritten = m.overwrites])

\* _.last(lastElement.node[NodeProp.WORKERS]), 0 when there is none
lastWorker(objs, node) ==
    IF objs[node].Workers.items = <<>> THEN 0
    ELSE objs[node].Workers.items[Len(objs[node].Workers.items)]

\* !element.Plan && element['Query Text'], for the root (element 0) and
\* for the object of an element
holdsQueryText(rt, objs, element) ==
    IF element = 0
    THEN rt.Plan = 0 /\ <<"P", "l", "a", "n">> \notin rt.props /\ <<"Q", "u", "e", "r", "y", " ", "T", "e", "x", "t">> \in rt.props
    ELSE <<"P", "l", "a", "n">> \notin objs[element].props /\ <<"Q", "u", "e", "r", "y", " ", "T", "e", "x", "t">> \in objs[element].props

\* the element an extra line is about: the node of the last element, 0 for
\* the root
elementOf(frames) == IF frames = <<>> THEN 0 ELSE previousElement(frames).node

\* the callback of _.each(lines, ...) is given a line of the text
Given(m) ==
    /\ textPc = "lines"
    /\ lineCount < MaxTextLines
    /\ IF lineCount = 0 THEN m.first ELSE m.own
    /\ textLine' = m.line
    /\ lineCount' = lineCount + 1
    /\ UNCHANGED <<planVars, jsonVars, lineVars, cleanVars, blockVars, dragVars>>

\* the callback throws
Throws(error) == textPc' = "failed" /\ thrown' = error

(***************************************************************************)
(* SpecText: fromText on a text of at most MaxTextLines lines, one action  *)
(* for each branch of the callback.                                        *)
(***************************************************************************)
InitText ==
    /\ textPc = "lines"
    /\ textLine = <<>>
    /\ lineCount = 0
    /\ elementsAtDepth = <<>>
    /\ objects = <<>>
    /\ textRoot = newRoot
    /\ thrown = NoError
    /\ PlanIdle /\ JsonIdle /\ LinesIdle /\ CleanIdle /\ BlockIdle /\ DragIdle

\* an empty line, a header, or a line no branch handles (text.ts:174-175)
OnOtherLine ==
    \E m \in Matched :
        /\ Given(m)
        /\ m.branch \in {"skip", "none"}
        /\ UNCHANGED <<elementsAtDepth, objects, textRoot, textPc, thrown>>

\* the node branch (text.ts:176-234)
OnNodeLine ==
    \E m \in Matched :
        /\ Given(m)
        /\ m.branch = "node"
        /\ IF elementsAtDepth = <<>>
           THEN /\ objects' = Append(objects, newNode(m))
                /\ elementsAtDepth' =
                       <<Element(m.depth, Len(objects) + 1, <<"s", "u", "b", "n", "o", "d", "e">>, <<>>)>>
                /\ textRoot' = [textRoot EXCEPT !.Plan = Len(objects) + 1]
                /\ UNCHANGED <<textPc, thrown>>
           ELSE IF removeDeeper(elementsAtDepth, m.depth) = <<>>
           THEN /\ elementsAtDepth' = <<>>
                /\ Throws(TypeError)
                /\ UNCHANGED <<objects, textRoot>>
           ELSE /\ objects' = pushPlan(objects,
                                  previousElement(removeDeeper(elementsAtDepth, m.depth)),
                                  newNode(m))
                /\ elementsAtDepth' =
                       Append(removeDeeper(elementsAtDepth, m.depth),
                              Element(m.depth, Len(objects) + 1, <<"s", "u", "b", "n", "o", "d", "e">>, <<>>))
                /\ UNCHANGED <<textRoot, textPc, thrown>>

\* the end of the Sub/InitPlan and CTE branches: the element of the line is
\* put on those that are left (text.ts:240-247, 252-259)
pushMarker(m) ==
    IF removeDeeper(elementsAtDepth, m.depth) = <<>>
    THEN /\ elementsAtDepth' = <<>>
         /\ Throws(TypeError)
    ELSE /\ elementsAtDepth' =
                Append(removeDeeper(elementsAtDepth, m.depth),
                       Element(m.depth,
                               previousElement(removeDeeper(elementsAtDepth, m.depth)).node,
                               m.subelementType, m.name))
         /\ UNCHANGED <<textPc, thrown>>

\* the Sub/InitPlan branch (text.ts:236-247)
OnSubLine ==
    \E m \in Matched :
        /\ Given(m)
        /\ m.branch = "sub"
        /\ pushMarker(m)
        /\ UNCHANGED <<objects, textRoot>>

\* the CTE branch (text.ts:248-259)
OnCteLine ==
    \E m \in Matched :
        /\ Given(m)
        /\ m.branch = "cte"
        /\ pushMarker(m)
        /\ UNCHANGED <<objects, textRoot>>

\* the Worker branch (text.ts:260-291)
OnWorkerLine ==
    \E m \in Matched :
        /\ Given(m)
        /\ m.branch = "worker"
        /\ IF elementsAtDepth = <<>>
           THEN /\ Throws(TypeError)
                /\ UNCHANGED objects
           ELSE /\ objects' = updateWorker(objects, previousElement(elementsAtDepth).node,
                                           m)
                /\ UNCHANGED <<textPc, thrown>>
        /\ UNCHANGED <<elementsAtDepth, textRoot>>

\* the Trigger branch (text.ts:292-301)
OnTriggerLine ==
    \E m \in Matched :
        /\ Given(m)
        /\ m.branch = "trigger"
        /\ elementsAtDepth' = removeDeeper(elementsAtDepth, m.depth)
        /\ textRoot' = [textRoot EXCEPT !.Triggers =
                           push(@, [name |-> m.name, time |-> m.time,
                                    calls |-> m.calls])]
        /\ UNCHANGED <<objects, textPc, thrown>>

\* the JIT branch (text.ts:302-320)
OnJitLine ==
    \E m \in Matched :
        /\ Given(m)
        /\ m.branch = "jit"
        /\ IF elementsAtDepth = <<>>
           THEN /\ objects' = Append(objects, newJIT)
                /\ textRoot' = [textRoot EXCEPT !.JIT = Len(objects) + 1]
                /\ elementsAtDepth' = <<Element(1, Len(objects) + 1, <<>>, <<>>)>>
           ELSE IF lastWorker(objects, previousElement(elementsAtDepth).node) # 0
           THEN /\ objects' =
                       Append([objects EXCEPT
                                  ![lastWorker(objects, previousElement(elementsAtDepth).node)].JIT =
                                      Len(objects) + 1],
                              newJIT)
                /\ elementsAtDepth' =
                       Append(elementsAtDepth,
                              Element(m.depth, Len(objects) + 1, <<>>, <<>>))
                /\ UNCHANGED textRoot
           ELSE UNCHANGED <<objects, textRoot, elementsAtDepth>>
        /\ UNCHANGED <<textPc, thrown>>

\* element[property] = value and the properties a sub-parser sets, on the
\* root (element 0) or on an object
setProps(element, props) ==
    IF element = 0
    THEN /\ textRoot' = [textRoot EXCEPT !.props = @ \cup props]
         /\ UNCHANGED objects
    ELSE /\ objects' = [objects EXCEPT ![element].props = @ \cup props]
         /\ UNCHANGED textRoot

\* the extra branch (text.ts:321-393); the labels of the lines are none of
\* Plan, Plans, Workers, Triggers and JIT
OnExtraLine ==
    \E m \in Matched :
        /\ Given(m)
        /\ m.branch = "extra"
        /\ elementsAtDepth' = removeDeeper(elementsAtDepth, m.depth)
        /\ IF \/ holdsQueryText(textRoot, objects,
                                elementOf(removeDeeper(elementsAtDepth, m.depth)))
              \/ ~m.hasValue
           THEN UNCHANGED <<objects, textRoot, textPc, thrown>>
           ELSE IF m.error # NoError
           THEN /\ setProps(elementOf(removeDeeper(elementsAtDepth, m.depth)),
                            m.props)
                /\ Throws(m.error)
           ELSE /\ setProps(elementOf(removeDeeper(elementsAtDepth, m.depth)),
                            m.props)
                /\ UNCHANGED <<textPc, thrown>>

UnableToParse == "Unable to parse plan"

\* after the last line (text.ts:396-399); a text has at least one line
Finish ==
    /\ textPc = "lines"
    /\ lineCount >= 1
    /\ IF textRoot.Plan = 0
       THEN Throws(UnableToParse)
       ELSE textPc' = "returned" /\ UNCHANGED thrown
    /\ UNCHANGED <<textLine, lineCount, elementsAtDepth, objects, textRoot>>
    /\ UNCHANGED <<planVars, jsonVars, lineVars, cleanVars, blockVars, dragVars>>

NextText ==
    \/ OnOtherLine
    \/ OnNodeLine
    \/ OnSubLine
    \/ OnCteLine
    \/ OnWorkerLine
    \/ OnTriggerLine
    \/ OnJitLine
    \/ OnExtraLine
    \/ Finish

SpecText == InitText /\ [][NextText]_vars

(***************************************************************************)
(* Dragscroll (dragscroll.ts): the handlers of mousedown and mousemove on  *)
(* the element and of mouseup on the document.  Positions are integers;    *)
(* the element keeps a scroll position within its scrollable range.        *)
(***************************************************************************)
MaxScreen == 2
MaxScroll == 2

\* e.screenX and e.screenY
Screen == 0..MaxScreen

\* the scroll positions of the element
Scroll == 0..MaxScroll

\* scrollArgument with the mouse positions the other way round
scrollArgument_withMouse(startScrollPosition, startMousePosition, screen) ==
    startScrollPosition + (screen - startMousePosition)

\* the first and the second argument of this.element.scrollTo
\* (dragscroll.ts:60-63)
scrollArgument(startScrollPosition, startMousePosition, screen) ==
    startScrollPosition + (startMousePosition - screen)

\* the position an element takes on scrollTo: the nearest one of its range
scrollTo(position) ==
    IF position < 0 THEN 0
    ELSE IF position > MaxScroll THEN MaxScroll
    ELSE position

\* the state after the constructor (dragscroll.ts:14-27), on an element
\* scrolled anywhere
InitDrag ==
    /\ listener = TRUE
    /\ started = FALSE
    /\ startMousePositionX = 0
    /\ startMousePositionY = 0
    /\ startScrollPositionX = 0
    /\ startScrollPositionY = 0
    /\ scrollLeft \in Scroll
    /\ scrollTop \in Scroll
    /\ lastEvent = NoEvent
    /\ scrolledTo = <<>>
    /\ pressed = FALSE
    /\ PlanIdle /\ JsonIdle /\ LinesIdle /\ CleanIdle /\ BlockIdle /\ TextIdle

\* handleMouseDownOnPlan(e); inBody is e.target.closest('.plan-node-body')
handleMouseDownOnPlan ==
    \E inBody \in BOOLEAN, x \in Screen, y \in Screen :
        /\ listener
        /\ lastEvent' = [type |-> "mousedown", inBody |-> inBody,
                         screenX |-> x, screenY |-> y]
        /\ scrolledTo' = <<>>
        /\ IF inBody
           THEN UNCHANGED <<started, startMousePositionX, startMousePositionY,
                            startScrollPositionX, startScrollPositionY, pressed>>
           ELSE /\ startMousePositionX' = x
                /\ startMousePositionY' = y
                /\ startScrollPositionX' = scrollLeft
                /\ startScrollPositionY' = scrollTop
                /\ started' = TRUE
                /\ pressed' = TRUE
        /\ UNCHANGED <<listener, scrollLeft, scrollTop>>
        /\ UNCHANGED <<planVars, jsonVars, lineVars, cleanVars, blockVars, textVars>>

\* handleMouseUpOnDocument(e)
handleMouseUpOnDocument ==
    /\ listener
    /\ lastEvent' = [type |-> "mouseup", inBody |-> FALSE, screenX |-> 0, screenY |-> 0]
    /\ scrolledTo' = <<>>
    /\ startMousePositionX' = 0
    /\ startMousePositionY' = 0
    /\ startScrollPositionX' = 0
    /\ startScrollPositionY' = 0
    /\ started' = FALSE
    /\ pressed' = FALSE
    /\ UNCHANGED <<listener, scrollLeft, scrollTop>>
    /\ UNCHANGED <<planVars, jsonVars, lineVars, cleanVars, blockVars, textVars>>

\* handleMouseMoveOnPlan(e)
handleMouseMoveOnPlan ==
    \E x \in Screen, y \in Screen :
        /\ listener
        /\ lastEvent' = [type |-> "mousemove", inBody |-> FALSE,
                         screenX |-> x, screenY |-> y]
        /\ IF listener /\ started
           THEN /\ scrolledTo' =
                       <<scrollArgument(startScrollPositionX, startMousePositionX, x),
                         scrollArgument(startScrollPositionY, startMousePositionY, y)>>
                /\ scrollLeft' =
                       scrollTo(scrollArgument(startScrollPositionX, startMousePositionX, x))
                /\ scrollTop' =
                       scrollTo(scrollArgument(startScrollPositionY, startMousePositionY, y))
           ELSE /\ scrolledTo' = <<>>
                /\ UNCHANGED <<scrollLeft, scrollTop>>
        /\ UNCHANGED <<listener, started, startMousePositionX, startMousePositionY,
                       startScrollPositionX, startScrollPositionY, pressed>>
        /\ UNCHANGED <<planVars, jsonVars, lineVars, cleanVars, blockVars, textVars>>

NextDrag ==
    \/ handleMouseDownOnPlan
    \/ handleMouseUpOnDocument
    \/ handleMouseMoveOnPlan

SpecDrag == InitDrag /\ [][NextDrag]_vars

(***************************************************************************)
(* Properties of createPlan, checked under Spec.                           *)
(***************************************************************************)
Range(seq) == {seq[i] : i \in 1..Len(seq)}

\* the nodes of the main tree: reachable from content.Plan through Plans
MainTree == Range(flatten(heap, plan.content.Plan))

\* the nodes reachable from the entries of plan.ctes
CteTrees == UNION {Range(flatten(heap, plan.ctes[i])) : i \in 1..Len(plan.ctes)}

\* the pair isCTE is meant to recognise, as the specification words it
HasCtePair(node) ==
    /\ node.PARENT_RELATIONSHIP = "InitPlan"
    /\ node.SUBPLAN_NAME.def
    /\ Len(node.SUBPLAN_NAME.s) >= 4
    /\ SubSeq(node.SUBPLAN_NAME.s, 1, 4) = <<"C", "T", "E", " ">>

Occurrences(seq, x) == Cardinality({i \in 1..Len(seq) : seq[i] = x})

\* C1 as stated: after createPlan the ids of the nodes reachable from
\* content.Plan are exactly 1..N in pre-order, N the number of those nodes.
C1_MainTreeIdsCover ==
    calls >= 1 =>
        LET main == flatten(heap, plan.content.Plan)
        IN \A i \in 1..Len(main) : heap[main[i]].nodeId = Num(i)

\* C1, amended: after every createPlan call the ids of the nodes of the tree
\* as handed over are 1..N in its pre-order (N the number of its nodes); the
\* nodes are those still reachable from content.Plan together with those under
\* the entries of plan.ctes, so the ids of the main tree are pairwise distinct,
\* and they are 1..N when no CTE was moved out.
C1_IdsCoverGivenTree ==
    calls >= 1 =>
        LET order == flatten(given, 1)
        IN /\ \A i \in 1..Len(order) : heap[order[i]].nodeId = Num(i)
           /\ Range(order) = DOMAIN heap
           /\ MainTree \cup CteTrees = DOMAIN heap
           /\ \A a, b \in MainTree : a # b => heap[a].nodeId # heap[b].nodeId
           /\ nodeId = Len(order) + 1
           /\ (plan.ctes = <<>> => C1_MainTreeIdsCover)

C1_Witness ==
    /\ calls = 2
    /\ Len(plan.ctes) = 1
    /\ heap[3].nodeId = Num(3)
    /\ 3 \in MainTree

\* C2: after createPlan no node of the main tree is an InitPlan whose
\* subplan name starts with "CTE ", and every node that was one when handed
\* over is exactly once in plan.ctes and not in the main tree.
C2_CtesRelocated ==
    calls >= 1 =>
        /\ \A id \in MainTree : ~HasCtePair(heap[id])
        /\ \A id \in DOMAIN given :
              HasCtePair(given[id]) =>
                  /\ Occurrences(plan.ctes, id) = 1
                  /\ id \notin MainTree

\* a CTE nested in a CTE, both moved
C2_Witness ==
    /\ calls >= 1
    /\ \E a, b \in DOMAIN given :
          /\ HasCtePair(given[a]) /\ HasCtePair(given[b])
          /\ b \in Range(given[a].PLANS)
          /\ Occurrences(plan.ctes, a) = 1 /\ Occurrences(plan.ctes, b) = 1

\* x is a number (or +Infinity) and x >= bound
AtLeast(x, bound) ==
    \/ IsNumber(x) /\ x.n >= bound * x.d
    \/ IsInf(x) /\ x.n > 0

\* C3 as stated: after createPlan every node's exclusive_cost and
\* exclusive_duration, once the walk has given it one, is >= 0.
C3_ExclusivesNonNegative ==
    calls >= 1 =>
        \A id \in DOMAIN heap :
            /\ ~IsUndefined(heap[id].EXCLUSIVE_COST) => AtLeast(heap[id].EXCLUSIVE_COST, 0)
            /\ ~IsUndefined(heap[id].EXCLUSIVE_DURATION) =>
                   AtLeast(heap[id].EXCLUSIVE_DURATION, 0)

\* C4 as stated: after createPlan every node with actual_rows and plan_rows
\* non-negative integers has a planner_estimate_factor that is a number >= 1.
C4_FactorAtLeastOne ==
    calls >= 1 =>
        \A id \in DOMAIN heap :
            IsNumber(heap[id].ACTUAL_ROWS) /\ IsNumber(heap[id].PLAN_ROWS) =>
                AtLeast(heap[id].PLANNER_ESTIMATE_FACTOR, 1)

\* C5 as stated: for every node with actual_rows defined the direction is
\* none iff plan_rows equals actual_rows, under when actual_rows > plan_rows,
\* over when actual_rows < plan_rows.
C5_DirectionNoneIffEqual ==
    calls >= 1 =>
        \A id \in DOMAIN heap :
            ~IsUndefined(heap[id].ACTUAL_ROWS) =>
                (heap[id].PLANNER_ESTIMATE_DIRECTION = "none"
                    <=> heap[id].PLAN_ROWS = heap[id].ACTUAL_ROWS)

\* C5, amended: for every node with actual_rows and plan_rows both defined
\* the direction is none iff they are equal, under when actual_rows >
\* plan_rows and over when actual_rows < plan_rows; a node with actual_rows
\* but no plan_rows gets the direction none.
C5_DirectionByRows ==
    calls >= 1 =>
        \A id \in DOMAIN heap :
            LET node == heap[id]
            IN ~IsUndefined(node.ACTUAL_ROWS) =>
                  IF IsUndefined(node.PLAN_ROWS)
                  THEN node.PLANNER_ESTIMATE_DIRECTION = "none"
                  ELSE /\ node.PLANNER_ESTIMATE_DIRECTION = "none"
                            <=> node.PLAN_ROWS.n = node.ACTUAL_ROWS.n
                       /\ node.ACTUAL_ROWS.n > node.PLAN_ROWS.n
                            => node.PLANNER_ESTIMATE_DIRECTION = "under"
                       /\ node.ACTUAL_ROWS.n < node.PLAN_ROWS.n
                            => node.PLANNER_ESTIMATE_DIRECTION = "over"

C5_Witness ==
    /\ calls >= 1
    /\ \E a, b \in DOMAIN heap :
          /\ heap[a].ACTUAL_ROWS = Num(2) /\ heap[a].PLAN_ROWS = Num(0)
          /\ heap[a].PLANNER_ESTIMATE_DIRECTION = "under"
          /\ heap[b].ACTUAL_ROWS = Num(2) /\ IsUndefined(heap[b].PLAN_ROWS)
          /\ heap[b].PLANNER_ESTIMATE_DIRECTION = "none"

\* C6 as stated: after createPlan every node that hangs under its parent
\* neither as InitPlan nor as SubPlan has workers_planned_by_gather equal to
\* the parent's workers_planned when the parent has one, otherwise to the
\* parent's workers_planned_by_gather; InitPlan, SubPlan and CTE children
\* are assigned nothing.
C6_WorkersFromParent ==
    calls >= 1 =>
        \A id \in DOMAIN given : \A child \in Range(given[id].PLANS) :
            IF heap[child].PARENT_RELATIONSHIP \in {"InitPlan", "SubPlan"}
            THEN heap[child].WORKERS_PLANNED_BY_GATHER
                     = given[child].WORKERS_PLANNED_BY_GATHER
            ELSE heap[child].WORKERS_PLANNED_BY_GATHER
                     = IF ~IsUndefined(heap[id].WORKERS_PLANNED)
                       THEN heap[id].WORKERS_PLANNED
                       ELSE heap[id].WORKERS_PLANNED_BY_GATHER

RECURSIVE CounterSum(_, _)
CounterSum(kids, property) ==
    IF kids = <<>> THEN 0
    ELSE (IF IsNumber(heap[Head(kids)].COUNTER[property])
          THEN heap[Head(kids)].COUNTER[property].n ELSE 0)
         + CounterSum(Tail(kids), property)

\* C7: after createPlan, for every node and each of the 12 counters, the
\* exclusive counter is the node's counter minus the sum of that counter over
\* the node's direct children, a child without it counting 0 (for a node
\* that has no such counter the difference is the one JavaScript forms from
\* undefined: NaN).
C7_ExclusiveCounters ==
    calls >= 1 =>
        \A id \in DOMAIN heap : \A property \in Counters :
            LET own == heap[id].COUNTER[property]
            IN IF IsNumber(own)
               THEN heap[id].EXCLUSIVE[property]
                        = Num(own.n - CounterSum(heap[id].PLANS, property))
               ELSE IsNaN(heap[id].EXCLUSIVE[property])

\* a node with 5 shared hits over two children with 1 and 5, the latter with
\* a child of its own
C7_Witness ==
    /\ calls >= 1
    /\ \E id \in DOMAIN heap :
          /\ Len(heap[id].PLANS) = 1
          /\ heap[id].COUNTER["SHARED_HIT_BLOCKS"] = Num(5)
          /\ heap[id].EXCLUSIVE["SHARED_HIT_BLOCKS"] = Num(4)
          /\ heap[heap[id].PLANS[1]].PLANS # <<>>
          /\ heap[heap[heap[id].PLANS[1]].PLANS[1]].COUNTER["SHARED_HIT_BLOCKS"] = Num(5)

\* the nodes below id that are reached through children that are no InitPlan
RECURSIVE Below(_)
Below(id) ==
    UNION {{c} \cup Below(c) :
             c \in {k \in Range(heap[id].PLANS) : heap[k].PARENT_RELATIONSHIP # "InitPlan"}}

\* the sum of exclusive_duration over a set of nodes, a node without one
\* counting 0
RECURSIVE DurationSum(_)
DurationSum(ids) ==
    IF ids = {} THEN Num(0)
    ELSE LET id == CHOOSE x \in ids : TRUE
         IN JsAdd(IF IsNumber(heap[id].EXCLUSIVE_DURATION)
                  THEN heap[id].EXCLUSIVE_DURATION ELSE Num(0),
                  DurationSum(ids \ {id}))

\* max(0, x), and 0 for an x that is no number
Max0(x) == IF IsNumber(x) /\ x.n > 0 THEN x ELSE Num(0)

\* the direct children of id that are no InitPlan
DirectChildren(id) ==
    {k \in Range(heap[id].PLANS) : heap[k].PARENT_RELATIONSHIP # "InitPlan"}

\* C13 as stated: for every node with actual_total_time, exclusive_duration
\* is max(0, scaled actual_total_time minus the sum of exclusive_duration
\* over its direct children that are no InitPlan), at any depth.
C13_MinusDirectChildren ==
    calls >= 1 =>
        \A id \in DOMAIN heap :
            ~IsUndefined(given[id].ACTUAL_TOTAL_TIME) =>
                heap[id].EXCLUSIVE_DURATION
                    = Max0(JsSub(heap[id].ACTUAL_TOTAL_TIME,
                                 DurationSum(DirectChildren(id))))

\* C13, amended: for every node with actual_total_time, exclusive_duration
\* is max(0, scaled actual_total_time minus the sum of exclusive_duration
\* over all its descendants reached through children that are no InitPlan),
\* and 0 when the scaled time is no number (actual_loops absent); for a node
\* whose children are leaves this is the sum over the direct children.
C13_MinusAllDescendants ==
    calls >= 1 =>
        \A id \in DOMAIN heap :
            ~IsUndefined(given[id].ACTUAL_TOTAL_TIME) =>
                /\ heap[id].EXCLUSIVE_DURATION
                      = Max0(JsSub(heap[id].ACTUAL_TOTAL_TIME, DurationSum(Below(id))))
                /\ (\A c \in DirectChildren(id) : heap[c].PLANS = <<>>) =>
                      heap[id].EXCLUSIVE_DURATION
                         = Max0(JsSub(heap[id].ACTUAL_TOTAL_TIME,
                                      DurationSum(DirectChildren(id))))

\* a chain of three timed nodes: the grandchild's 6 is taken off the root's
\* 12 although the child's own exclusive_duration is 0
C13_Witness ==
    /\ calls >= 1
    /\ Len(heap) = 3
    /\ heap[1].PLANS = <<2>> /\ heap[2].PLANS = <<3>>
    /\ heap[1].ACTUAL_TOTAL_TIME = Num(12)
    /\ heap[2].EXCLUSIVE_DURATION = Num(0)
    /\ heap[3].EXCLUSIVE_DURATION = Num(6)
    /\ heap[1].EXCLUSIVE_DURATION = Num(6)

\* workers_planned_by_gather + 1, an absent one counted as 0
WorkersPlusOne(node) ==
    IF IsNumber(node.WORKERS_PLANNED_BY_GATHER)
    THEN Num(node.WORKERS_PLANNED_BY_GATHER.n + 1)
    ELSE Num(1)

\* time * loops / workers
Scaled(time, loops, workers) == JsDiv(JsMul(time, loops), workers)

\* child hangs under its parent neither as InitPlan nor as SubPlan
Eligible(child) == heap[child].PARENT_RELATIONSHIP \notin {"InitPlan", "SubPlan"}

\* C14: for every node with actual_total_time, createPlan replaces
\* actual_total_time and actual_startup_time by the value handed over times
\* actual_loops divided by (workers_planned_by_gather + 1), an absent
\* workers_planned_by_gather counted as 0; the scaling is applied once and
\* with the workers value propagated from the parent: an eligible child of a
\* node with w > 0 planned workers is divided by w + 1.
C14_TimesScaledOnce ==
    calls >= 1 =>
        \A id \in DOMAIN heap :
            ~IsUndefined(given[id].ACTUAL_TOTAL_TIME) =>
                /\ heap[id].ACTUAL_TOTAL_TIME
                      = Scaled(given[id].ACTUAL_TOTAL_TIME, given[id].ACTUAL_LOOPS,
                               WorkersPlusOne(heap[id]))
                /\ heap[id].ACTUAL_STARTUP_TIME
                      = Scaled(given[id].ACTUAL_STARTUP_TIME, given[id].ACTUAL_LOOPS,
                               WorkersPlusOne(heap[id]))
                /\ \A parent \in DOMAIN given :
                      /\ id \in Range(given[parent].PLANS)
                      /\ Eligible(id)
                      /\ IsNumber(given[parent].WORKERS_PLANNED)
                      /\ given[parent].WORKERS_PLANNED.n > 0
                      => heap[id].ACTUAL_TOTAL_TIME
                            = Scaled(given[id].ACTUAL_TOTAL_TIME, given[id].ACTUAL_LOOPS,
                                     Num(given[parent].WORKERS_PLANNED.n + 1))

\* a node with 6 under a node with 2 planned workers ends with 6 / 3 and a
\* start-up time of 1 / 3
C14_Witness ==
    /\ calls >= 1
    /\ \E parent \in DOMAIN heap : \E id \in Range(given[parent].PLANS) :
          /\ heap[parent].WORKERS_PLANNED = Num(2)
          /\ given[id].ACTUAL_TOTAL_TIME = Num(6)
          /\ given[id].ACTUAL_LOOPS = Num(1)
          /\ heap[id].ACTUAL_TOTAL_TIME = Num(2)
          /\ heap[id].ACTUAL_STARTUP_TIME = Rat(1, 3)

\* C15 as stated: when a node has workers_planned equal to 0, its eligible
\* children (neither InitPlan nor SubPlan) get workers_planned_by_gather 0,
\* not the value the node inherited from its own ancestors.
C15_ZeroWorkersPropagated ==
    calls >= 1 =>
        \A id \in DOMAIN given : \A child \in Range(given[id].PLANS) :
            heap[id].WORKERS_PLANNED = Num(0) /\ Eligible(child) =>
                heap[child].WORKERS_PLANNED_BY_GATHER = Num(0)

\* the numbers among the values f gives for the nodes
NumbersOf(ids, f(_)) == {f(heap[id]) : id \in {x \in ids : IsNumber(f(heap[x]))}}

\* m is the greatest of the numbers xs
IsMax(m, xs) == m \in xs /\ \A x \in xs : ~JsGt(x, m)

\* the recorded maximum is the greatest number among the values of the
\* nodes, when one of them has a number
Recorded(m, ids, f(_)) == NumbersOf(ids, f) # {} => IsMax(m, NumbersOf(ids, f))

\* a maxBlocks entry is the greatest sum when that is not zero, and absent
\* when it is zero
RecordedBlocks(m, ids, f(_)) ==
    NumbersOf(ids, f) # {} =>
        IF IsMax(Num(0), NumbersOf(ids, f))
        THEN IsUndefined(m)
        ELSE IsMax(m, NumbersOf(ids, f))

ActualRowsOf(node) == node.ACTUAL_ROWS
ExclusiveCostOf(node) == node.EXCLUSIVE_COST
TotalCostOf(node) == node.TOTAL_COST
ExclusiveDurationOf(node) == node.EXCLUSIVE_DURATION

\* the maxima of content are those of the nodes ids
MaximaOver(ids) ==
    /\ Recorded(plan.content.maxRows, ids, ActualRowsOf)
    /\ Recorded(plan.content.maxCost, ids, ExclusiveCostOf)
    /\ Recorded(plan.content.maxTotalCost, ids, TotalCostOf)
    /\ Recorded(plan.content.maxDuration, ids, ExclusiveDurationOf)
    /\ RecordedBlocks(plan.content.maxBlocks.shared, ids, sumShared)
    /\ RecordedBlocks(plan.content.maxBlocks.temp, ids, sumTemp)
    /\ RecordedBlocks(plan.content.maxBlocks.local, ids, sumLocal)

\* C16 as stated: after createPlan maxRows, maxCost, maxTotalCost and
\* maxDuration are the maxima of actual_rows, exclusive_cost, total_cost and
\* exclusive_duration over all nodes the walk processed (every node that got
\* a node_id), so that no node exceeds a recorded maximum, and a maxBlocks
\* entry is absent exactly when its maximum sum is zero.
C16_MaximaOverAllNodes ==
    calls >= 1 => MaximaOver({id \in DOMAIN heap : IsNumber(heap[id].nodeId)})

\* C16, what calculateMaximums records: the maxima over the nodes still
\* reachable from content.Plan, the nodes moved to plan.ctes left out.
C16_MaximaOverMainTree ==
    calls >= 1 => MaximaOver(MainTree)

\* the call being made is handed the plan of the call before, written out
\* without its derived properties
IsRoundTrip ==
    /\ calls = 1
    /\ calls' = calls + 1
    /\ given' = reserialize(heap)

\* the tree under content.Plan before the call, in pre-order
Before == flatten(heap, 1)

\* the tree under content.Plan after the call has the nodes and children
\* it had before it (the parser numbers the new objects in pre-order)
SameNodes ==
    /\ flatten(heap', 1) = [i \in 1..Len(Before) |-> i]
    /\ \A i \in 1..Len(Before) :
          heap'[i].PLANS = renumbered(heap[Before[i]], Before).PLANS

\* C12 as stated: enriching again the enriched content.Plan, its derived
\* properties dropped, yields the same tree: the same nodes, the same
\* children under Plans and the same values of the non-derived properties,
\* actual_total_time and actual_startup_time included.
C12_RoundTripSameTree ==
    [][IsRoundTrip =>
          /\ SameNodes
          /\ \A i \in 1..Len(Before) :
                NonDerived(heap'[i]) = NonDerived(renumbered(heap[Before[i]], Before))]_vars

\* C12, what the round trip keeps: the nodes, the children and every
\* non-derived property but the two times, which are scaled once more.
C12_RoundTripButTimes ==
    [][IsRoundTrip =>
          /\ SameNodes
          /\ \A i \in 1..Len(Before) :
                [NonDerived(heap'[i]) EXCEPT
                    !.ACTUAL_TOTAL_TIME = heap[Before[i]].ACTUAL_TOTAL_TIME,
                    !.ACTUAL_STARTUP_TIME = heap[Before[i]].ACTUAL_STARTUP_TIME]
                  = NonDerived(renumbered(heap[Before[i]], Before))]_vars

(***************************************************************************)
(* Properties of splitIntoLines, checked under SpecLines.                  *)
(***************************************************************************)
\* the line has more ")" than "("
MoreClosing(line) ==
    Cardinality({k \in 1..Len(line) : line[k] = ")"})
        > Cardinality({k \in 1..Len(line) : line[k] = "("})

\* the logical lines after the first i raw lines
OutAfter(i) == splitIntoLines(SubSeq(rawLines, 1, i)).out

IsPrefix(a, b) == Len(a) <= Len(b) /\ SubSeq(b, 1, Len(a)) = a

\* C9 as stated: every raw line with more ")" than "(", at every position
\* of the input, becomes the tail of the preceding logical line.
C9_AlwaysTailOfPrevious ==
    linePc = "done" =>
        \A i \in 1..Len(rawLines) :
            MoreClosing(rawLines[i]) =>
                /\ OutAfter(i - 1) # <<>>
                /\ OutAfter(i) = [OutAfter(i - 1) EXCEPT
                                     ![Len(OutAfter(i - 1))] = @ \o rawLines[i]]

\* C9, what splitIntoLines does: a raw line with more ")" than "(" never
\* becomes a logical line of its own; when a logical line precedes it, it
\* becomes the tail of the last one; when none does (the first raw line, or
\* one that follows only such lines), it is left out of the logical lines.
C9_TailOrDropped ==
    linePc = "done" =>
        \A i \in 1..Len(rawLines) :
            MoreClosing(rawLines[i]) =>
                LET before == OutAfter(i - 1)
                IN /\ Len(OutAfter(i)) = Len(before)
                   /\ before # <<>> =>
                         /\ OutAfter(i) = [before EXCEPT ![Len(before)] = @ \o rawLines[i]]
                         /\ Len(out) >= Len(before)
                         /\ IsPrefix(before[Len(before)] \o rawLines[i], out[Len(before)])
                   /\ before = <<>> =>
                         /\ OutAfter(i) = <<>>
                         /\ outLost.def
                         /\ \A k \in 1..Len(out) : \E j \in (i + 1)..Len(rawLines) :
                               IsPrefix(rawLines[j], out[k])

\* a line that starts with a keyword and has more ")" than "(", after a
\* logical line and first in the text
C9_Witness ==
    /\ linePc = "done"
    /\ Len(rawLines) = 3
    /\ rawLines[1] = <<")">>
    /\ rawLines[2] = <<" ", "y">>
    /\ rawLines[3] = <<"J", "I", "T", ")">>
    /\ out = <<<<" ", "y", "J", "I", "T", ")">>>>


(***************************************************************************)
(* Properties of cleanupSource, checked under SpecCleanup.                 *)
(***************************************************************************)
\* C10: cleanupSource is idempotent: cleaning the result of cleanupSource
\* again returns it unchanged, for every source built from framed, ruler and
\* quoted lines, continuation markers, a header and a row-count footer.
C10_CleanupIdempotent ==
    cleanPc = "twice" => cleanedTwice = cleaned


(***************************************************************************)
(* Properties of parseJson, checked under SpecJson.                        *)
(***************************************************************************)
\* the scalar properties a value of the source carries
ScalarProps(name) ==
    CASE name \in {"A", "AN"} -> {[k |-> "a", v |-> JNumber(1)]}
      [] name \in {"B", "BM", "BD"} -> {[k |-> "b", v |-> JNumber(2)]}
      [] OTHER -> {}

\* the keys under which a value of the source holds a container
ContainerKeys(name) ==
    CASE name = "AN" -> {"n"}
      [] name = "BM" -> {"m"}
      [] name = "BD" -> {"c"}
      [] OTHER -> {}

\* the entries of the source under the key
EntriesOf(key) == {i \in 1..Len(jsrc.entries) : jsrc.entries[i].k = key}

\* the number of events delivered when the value of entry i has closed
RECURSIVE ClosedAt(_)
ClosedAt(i) ==
    IF i = 0 THEN (IF jsrc.wrapped THEN 1 ELSE 0)
    ELSE ClosedAt(i - 1) + 1 + Len(ValueEvents(jsrc.entries[i].v))

\* the object parseJson returned has the key once, with an object that holds
\* the scalar properties and the containers of the source value
ReturnedUnder(key, name) ==
    /\ IsRef(jroot)
    /\ Cardinality({i \in 1..Len(jheap[jroot.n].m) : jheap[jroot.n].m[i].k = key}) = 1
    /\ IsRef(Get(jheap[jroot.n], key))
    /\ ~jheap[Get(jheap[jroot.n], key).n].arr
    /\ \A p \in ScalarProps(name) :
          /\ HasKey(jheap[Get(jheap[jroot.n], key).n], p.k)
          /\ Get(jheap[Get(jheap[jroot.n], key).n], p.k) = p.v
    /\ \A c \in ContainerKeys(name) :
          /\ HasKey(jheap[Get(jheap[jroot.n], key).n], c)
          /\ IsRef(Get(jheap[Get(jheap[jroot.n], key).n], c))

\* the key occurs exactly twice in the source, at i and j, with object
\* values of distinct scalar properties
TwiceWithObjects(key, i, j) ==
    /\ EntriesOf(key) = {i, j}
    /\ i < j
    /\ jsrc.entries[i].v \in {"A", "AN"}
    /\ jsrc.entries[j].v \in {"B", "BM", "BD"}

\* C8: when a key occurs twice in the source object, each time with an
\* object value carrying distinct scalar properties, the object parseJson
\* returns has one object under the key that holds the properties of both
\* occurrences (nested containers included), and the duplicate marker is
\* cleared once the second value has closed.
C8_DuplicateKeyMerged ==
    \A i, j \in 1..Len(jsrc.entries) :
        TwiceWithObjects("W", i, j) =>
            /\ jsonPc = "done" =>
                  /\ ReturnedUnder("W", jsrc.entries[i].v)
                  /\ ReturnedUnder("W", jsrc.entries[j].v)
            /\ jpos = ClosedAt(j) => ~duplicated.set

\* C8 on the sources in which no other key is repeated, neither in the
\* object nor inside the two values: there the merge is as C8 states.
C8_MergedWithoutOtherRepeat ==
    \A i, j \in 1..Len(jsrc.entries) :
        /\ TwiceWithObjects("W", i, j)
        /\ jsrc.entries[j].v # "BD"
        /\ Cardinality(EntriesOf("X")) <= 1
        => /\ jsonPc = "done" =>
                 /\ ReturnedUnder("W", jsrc.entries[i].v)
                 /\ ReturnedUnder("W", jsrc.entries[j].v)
           /\ jpos = ClosedAt(j) => ~duplicated.set

\* the object parseJson returned has, under the key, the value the source
\* gave it
ReturnedAsGiven(key, name) ==
    IF name = "S"
    THEN /\ IsRef(jroot)
         /\ HasKey(jheap[jroot.n], key)
         /\ Get(jheap[jroot.n], key) = JNumber(5)
    ELSE ReturnedUnder(key, name)

\* C19 as stated: a repeated key affects only its own entry: every key that
\* occurs once in the source object ends with exactly the value the source
\* gave it, whatever other key is repeated before or after it, with a scalar
\* or a container value.
C19_RepeatLeavesOtherKeys ==
    jsonPc = "done" =>
        \A i \in 1..Len(jsrc.entries) :
            EntriesOf(jsrc.entries[i].k) = {i} =>
                ReturnedAsGiven(jsrc.entries[i].k, jsrc.entries[i].v)

\* C19, where it does hold: in a source without a repeated key every key
\* ends with the value the source gave it.
C19_NoRepeatAsGiven ==
    jsonPc = "done" /\ (\A i \in 1..Len(jsrc.entries) : EntriesOf(jsrc.entries[i].k) = {i}) =>
        \A i \in 1..Len(jsrc.entries) :
            ReturnedAsGiven(jsrc.entries[i].k, jsrc.entries[i].v)

\* a source with nested containers in both values has been merged
C8_MergedWitness ==
    /\ jsonPc = "done"
    /\ jsrc.wrapped
    /\ Len(jsrc.entries) = 3
    /\ jsrc.entries[1] = [k |-> "W", v |-> "AN"]
    /\ jsrc.entries[2] = [k |-> "X", v |-> "S"]
    /\ jsrc.entries[3] = [k |-> "W", v |-> "BM"]
    /\ ReturnedUnder("W", "AN")
    /\ ReturnedUnder("W", "BM")


(***************************************************************************)
(* Properties of fromJson, checked under SpecBlock.                        *)
(***************************************************************************)
\* the content of the line is a lone "[" or "{" after its prefix
LoneOpening(l) ==
    \E p \in 0..(Len(l) - 1) :
        /\ \A k \in 1..p : IsSpace(l[k])
        /\ l[p + 1] \in {"[", "{"}
        /\ \A k \in (p + 2)..Len(l) : IsSpace(l[k])

\* the content of the line is the prefix followed by "]" or "}", trailing
\* blanks allowed
ClosingWith(l, prefix) ==
    /\ Len(l) > Len(prefix)
    /\ SubSeq(l, 1, Len(prefix)) = prefix
    /\ l[Len(prefix) + 1] \in {"]", "}"}
    /\ \A k \in (Len(prefix) + 2)..Len(l) : IsSpace(l[k])

\* the first line (from 1) with a lone opening bracket, 0 when there is none
OpeningLine ==
    IF \E i \in 1..Len(sourceLines) : LoneOpening(sourceLines[i])
    THEN CHOOSE i \in 1..Len(sourceLines) :
            LoneOpening(sourceLines[i]) /\ \A k \in 1..(i - 1) : ~LoneOpening(sourceLines[k])
    ELSE 0

\* the white space the opening line starts with
OpeningPrefix ==
    LET l == sourceLines[OpeningLine]
    IN SubSeq(l, 1, (CHOOSE p \in 0..(Len(l) - 1) :
                        l[p + 1] \in {"[", "{"} /\ \A k \in 1..p : IsSpace(l[k])))

\* the closing lines after the opening line
ClosingLines ==
    {i \in (OpeningLine + 1)..Len(sourceLines) : ClosingWith(sourceLines[i], OpeningPrefix)}

\* the first of them
ClosingLine == CHOOSE i \in ClosingLines : \A k \in ClosingLines : i <= k

\* C17 as stated: fromJson extracts the lines from the first line that is a
\* lone "[" or "{" with prefix P up to the first line after it that is P
\* followed by "]" or "}" (trailing blanks allowed); a closing line before
\* the opening line is never taken as the end, so that the block is not
\* empty when a closing line follows the opening line.
C17_BlockFromOpeningToClosing ==
    blockPc = "done" /\ OpeningLine > 0 /\ ClosingLines # {} =>
        /\ extracted.useSource = SubSeq(sourceLines, OpeningLine, ClosingLine)
        /\ extracted.useSource # <<>>

\* C17, what fromJson extracts: the lines from the first opening line up to
\* the first line of the whole source, before or after it, that is P
\* followed by "]" or "}" and then nothing but letters s; the first line of
\* the source when there is no such line; nothing when the line found does
\* not come after the opening line.
C17_BlockAsExtracted ==
    blockPc = "done" /\ OpeningLine > 0 =>
        LET ends == {i \in 1..Len(sourceLines) :
                        /\ Len(sourceLines[i]) > Len(OpeningPrefix)
                        /\ SubSeq(sourceLines[i], 1, Len(OpeningPrefix)) = OpeningPrefix
                        /\ sourceLines[i][Len(OpeningPrefix) + 1] \in {"]", "}"}
                        /\ \A k \in (Len(OpeningPrefix) + 2)..Len(sourceLines[i]) :
                              sourceLines[i][k] = "s"}
            last == IF ends = {} THEN 1 ELSE CHOOSE i \in ends : \A k \in ends : i <= k
        IN extracted.useSource = SubSeq(sourceLines, OpeningLine, last)

(***************************************************************************)
(* Properties of fromText, checked under SpecText.                         *)
(***************************************************************************)
\* what the callback read off the line it was given last
LastMatched == CHOOSE m \in Matched : m.line = textLine

\* C11 as stated: whatever the lines, fromText returns a root whose Plan is
\* set or fails with 'Unable to parse plan' or 'Unsupported sort groups
\* method', and with no other error.
C11_OnlyNamedErrors ==
    /\ textPc = "returned" => textRoot.Plan # 0
    /\ textPc = "failed" => thrown \in {UnableToParse, UnsupportedSortGroups}

\* C11, the errors fromText ends with: 'Unable to parse plan' after the
\* last line, and inside the loop a TypeError (an element or a match that
\* is not there) or the SyntaxError of JSON.parse.
C11_ErrorsThrown ==
    /\ textPc = "returned" => textRoot.Plan # 0 /\ thrown = NoError
    /\ textPc = "failed" => thrown \in {UnableToParse, TypeError, SyntaxError}
    /\ thrown = TypeError =>
          \/ LastMatched.branch \in {"node", "sub", "cte", "worker"}
                 /\ \A i \in 1..Len(elementsAtDepth) : elementsAtDepth[i].depth < LastMatched.depth
          \/ LastMatched.branch = "extra" /\ LastMatched.error = TypeError

\* the objects under an object by Plans, the object included
RECURSIVE under(_, _)
under(objs, id) ==
    {id} \cup UNION {under(objs, objs[id].Plans.items[i]) : i \in 1..Len(objs[id].Plans.items)}

\* the nodes of the plan of the root
parsedNodes(rt, objs) == IF rt.Plan = 0 THEN {} ELSE under(objs, rt.Plan)

\* C20 as stated: once the first node line has set root.Plan, no later line
\* replaces root.Plan or detaches a node that was parsed.
C20_PlanAssignedOnce ==
    [][textRoot.Plan # 0 =>
          /\ textRoot'.Plan = textRoot.Plan
          /\ parsedNodes(textRoot, objects) \subseteq parsedNodes(textRoot', objects')]_vars

\* C20, when root.Plan is replaced: by a node line that finds
\* elementsAtDepth empty, a Trigger or an extra line having removed the
\* element of every node; the new plan has none of the nodes parsed before.
C20_ReplacedWhenEmptied ==
    [][textRoot.Plan # 0 /\ textRoot'.Plan # textRoot.Plan =>
          /\ elementsAtDepth = <<>>
          /\ \E m \in Matched : m.line = textLine' /\ m.branch = "node"
          /\ parsedNodes(textRoot, objects) \cap parsedNodes(textRoot', objects') = {}]_vars

\* the elements with a depth under d, in their order
RECURSIVE shallower(_, _)
shallower(frames, d) ==
    IF frames = <<>> THEN <<>>
    ELSE (IF Head(frames).depth < d THEN <<Head(frames)>> ELSE <<>>)
             \o shallower(Tail(frames), d)

\* the callback is given a node line after the first node line
LaterNodeLine(l) ==
    /\ textPc = "lines"
    /\ textRoot.Plan # 0
    /\ lineCount' = lineCount + 1
    /\ l.line = textLine'
    /\ l.branch = "node"

\* the new object hangs last in the plans of the node of the element, with
\* the label of the element when it is one of a Sub/InitPlan or CTE line
HangsUnder(element) ==
    /\ Len(objects') = Len(objects) + 1
    /\ objects'[element.node].Plans.def
    /\ objects'[element.node].Plans.items =
           Append(objects[element.node].Plans.items, Len(objects'))
    /\ \A id \in 1..Len(objects) :
           id # element.node => objects'[id].Plans = objects[id].Plans
    /\ IF element.subelementType \in {<<"i", "n", "i", "t", "p", "l", "a", "n">>, <<"s", "u", "b", "p", "l", "a", "n">>}
       THEN /\ objects'[Len(objects')].parentRelationship =
                   Str(IF element.subelementType = <<"i", "n", "i", "t", "p", "l", "a", "n">> THEN <<"I", "n", "i", "t", "P", "l", "a", "n">> ELSE <<"S", "u", "b", "P", "l", "a", "n">>)
            /\ objects'[Len(objects')].subplanName = Str(element.name)
       ELSE /\ objects'[Len(objects')].parentRelationship = NoStr
            /\ objects'[Len(objects')].subplanName = NoStr

\* C18 as stated: each node line after the first pops the elements with a
\* depth >= its own and is appended to the plans of the node of the deepest
\* element left, labelled InitPlan or SubPlan with the name of that element
\* exactly when it is the element of a Sub/InitPlan or CTE line.
C18_AppendedUnderDeepestLeft ==
    [][\A l \in Matched :
          LaterNodeLine(l) =>
              /\ shallower(elementsAtDepth, l.depth) # <<>>
              /\ HangsUnder(shallower(elementsAtDepth, l.depth)[
                                Len(shallower(elementsAtDepth, l.depth))])
              /\ SubSeq(elementsAtDepth', 1, Len(elementsAtDepth') - 1) =
                     shallower(elementsAtDepth, l.depth)]_vars

\* C18, for a node line that leaves an element: the same.
C18_AppendedWhenOneIsLeft ==
    [][\A l \in Matched :
          LaterNodeLine(l) /\ shallower(elementsAtDepth, l.depth) # <<>> =>
              /\ HangsUnder(shallower(elementsAtDepth, l.depth)[
                                Len(shallower(elementsAtDepth, l.depth))])
              /\ SubSeq(elementsAtDepth', 1, Len(elementsAtDepth') - 1) =
                     shallower(elementsAtDepth, l.depth)]_vars

\* C18: a node was put under the element of a CTE line, and a node under
\* that node
C18_Witness ==
    \E id \in 1..Len(objects), kid \in 1..Len(objects) :
        /\ objects[id].parentRelationship = Str(<<"I", "n", "i", "t", "P", "l", "a", "n">>)
        /\ objects[id].subplanName = Str(<<"C", "T", "E", " ", "x">>)
        /\ kid \in Range(objects[id].Plans.items)
        /\ objects[kid].parentRelationship = NoStr

\* the depths recorded in elementsAtDepth are strictly increasing from
\* bottom to top
Increasing(frames) ==
    \A i \in 1..(Len(frames) - 1) : frames[i].depth < frames[i + 1].depth

\* C21 as stated: after every processed line the depths recorded in
\* elementsAtDepth are strictly increasing from bottom to top, whichever
\* branch handled the line.
C21_DepthsIncreasing == Increasing(elementsAtDepth)

\* C21, what the branches do: every branch but the JIT branch leaves the
\* depths strictly increasing when they were; the JIT branch puts the
\* element of a worker's JIT on top without removing any, so that its depth
\* may be that of an element below it or less.
C21_IncreasingButForJIT ==
    [][/\ Increasing(elementsAtDepth) /\ LastMatched'.branch # "jit"
           => Increasing(elementsAtDepth')
       /\ ~Increasing(elementsAtDepth') /\ Increasing(elementsAtDepth)
           => /\ LastMatched'.branch = "jit"
              /\ Len(elementsAtDepth') = Len(elementsAtDepth) + 1
              /\ lastWorker(objects, previousElement(elementsAtDepth).node) # 0]_vars

\* a JIT line under a worker was handled: its element is on top and no
\* deeper than the one below it
C21_Witness ==
    /\ Len(elementsAtDepth) >= 2
    /\ elementsAtDepth[Len(elementsAtDepth)].depth
           <= elementsAtDepth[Len(elementsAtDepth) - 1].depth
    /\ objects[elementsAtDepth[Len(elementsAtDepth)].node].kind = "jit"

\* worker[WorkerProp.WORKER_NUMBER] as it is now: the number the worker was
\* made with, or the text written over it
numberOf(worker) ==
    IF worker.overwritten.def THEN [text |-> TRUE, n |-> 0, s |-> worker.overwritten.s]
    ELSE [text |-> FALSE, n |-> worker.number, s |-> <<>>]

\* the lists of workers of the objects
WorkerLists == {objects[o].Workers.items : o \in 1..Len(objects)}

\* C22 as stated: after any sequence of lines no node's workers list
\* contains two workers with the same worker_number.
C22_NoTwoWorkersWithNumber ==
    \A workers \in WorkerLists :
        \A i, j \in 1..Len(workers) :
            i # j => numberOf(objects[workers[i]]) # numberOf(objects[workers[j]])

\* C22, what the Worker branch does: a 'Worker N:' line makes a worker under
\* the node of the last element only if none there has the number N, and
\* otherwise makes none; no list has two workers that have kept the same
\* number. A worker whose number an extra 'Worker Number: ...' has
\* replaced by a text is not found by its number any more.
C22_NoTwoWorkersKeepNumber ==
    /\ \A workers \in WorkerLists :
          \A i, j \in 1..Len(workers) :
              /\ i # j
              /\ ~objects[workers[i]].overwritten.def
              /\ ~objects[workers[j]].overwritten.def
              => objects[workers[i]].number # objects[workers[j]].number
    /\ \A o \in 1..Len(objects) : objects[o].kind = "worker" =>
          Cardinality({p \in 1..Len(objects) :
              \E i \in 1..Len(objects[p].Workers.items) :
                  objects[p].Workers.items[i] = o}) = 1

\* two Worker lines with the number 0 were handled on a node, the second
\* updating the worker of the first: the node has one worker with the
\* properties of both lines
C22_Witness ==
    \E o \in 1..Len(objects) :
        /\ objects[o].kind = "node"
        /\ Len(objects[o].Workers.items) = 1
        /\ SortProps \subseteq objects[objects[o].Workers.items[1]].props
        /\ SortProps # objects[objects[o].Workers.items[1]].props
        /\ ~objects[objects[o].Workers.items[1]].overwritten.def

\* two 'Worker 0: Worker Number: 1' lines were handled on a node: two
\* workers with the text 1 for a number
C22_TwoWorkersWitness ==
    \E o \in 1..Len(objects) :
        /\ Len(objects[o].Workers.items) = 2
        /\ objects[objects[o].Workers.items[1]].overwritten = Str(<<"1">>)
        /\ objects[objects[o].Workers.items[2]].overwritten = Str(<<"1">>)

(***************************************************************************)
(* Properties of Dragscroll, checked under SpecDrag.                       *)
(***************************************************************************)
\* C23: for every sequence of mousedown, mousemove and mouseup events the
\* element is scrolled only by a mousemove that comes after a mousedown
\* outside '.plan-node-body' and before the next mouseup, and such a
\* mousemove scrolls it to startScroll + (startMouse - mouse) on each axis
\* (the element taking the nearest position of its range); a mousedown
\* inside '.plan-node-body' changes no state; after a mouseup start is false
\* and the four start positions are 0.
C23_ScrolledWhileDragging ==
    [][/\ (scrolledTo' # <<>> \/ scrollLeft' # scrollLeft \/ scrollTop' # scrollTop)
           => lastEvent'.type = "mousemove" /\ pressed
       /\ lastEvent'.type = "mousemove" /\ pressed
           => /\ scrolledTo' =
                     <<startScrollPositionX + (startMousePositionX - lastEvent'.screenX),
                       startScrollPositionY + (startMousePositionY - lastEvent'.screenY)>>
              /\ scrollLeft' = scrollTo(scrolledTo'[1])
              /\ scrollTop' = scrollTo(scrolledTo'[2])
       /\ lastEvent'.type = "mousedown" /\ lastEvent'.inBody
           => UNCHANGED <<started, startMousePositionX, startMousePositionY,
                          startScrollPositionX, startScrollPositionY,
                          scrollLeft, scrollTop>>
       /\ lastEvent'.type = "mousedown" /\ ~lastEvent'.inBody
           => /\ started'
              /\ startMousePositionX' = lastEvent'.screenX
              /\ startMousePositionY' = lastEvent'.screenY
              /\ startScrollPositionX' = scrollLeft
              /\ startScrollPositionY' = scrollTop
       /\ lastEvent'.type = "mouseup"
           => /\ ~started'
              /\ startMousePositionX' = 0 /\ startMousePositionY' = 0
              /\ startScrollPositionX' = 0 /\ startScrollPositionY' = 0]_vars

\* a mousemove after a mousedown outside '.plan-node-body' has scrolled the
\* element on both axes
C23_Witness ==
    /\ lastEvent.type = "mousemove"
    /\ pressed
    /\ scrolledTo # <<>>
    /\ scrollLeft # startScrollPositionX
    /\ scrollTop # startScrollPositionY

=============================================================================
